---- MODULE Spec2Model ----
(***************************************************************************)
(* Model of the card-news renderer of card_news.py.                        *)
(*                                                                         *)
(* Texts are sequences of one-character strings.  A rendered image is      *)
(* represented by the values that determine it: the renderer that drew    *)
(* it, the slide kind, the sequence numbers it was given, whether a        *)
(* background photo was used, the font handles, the text fields and the    *)
(* parsed items.                                                           *)
(* Python's None is the empty sequence and a value v that may be None is   *)
(* <<v>>.                                                                  *)
(*                                                                         *)
(* Spec        the renderer object, the font cache and the render calls    *)
(* SpecWrap    CardNewsRenderer._wrap and _tw over texts, fonts, widths    *)
(* SpecBullet  the bullet parser of render_content over bodies             *)
(* SpecFit     _fit_cover over source and target sizes                     *)
(* SpecGrad    _gradient_overlay over heights and alphas                   *)
(* SpecFont    _load_font called directly while font files come and go     *)
(* SpecCard    the title and description loops of one item card            *)
(* SpecLayout  the item cards of render_content over canvas heights        *)
(* SpecText    the render calls over text fields, without a photo          *)
(***************************************************************************)
EXTENDS Integers, Sequences, FiniteSets, TLC

VARIABLES
    fs,           \* the host: [exists, loads], sets of font paths, and for
                  \* a renderer's host the built-in font of its Pillow
    font_cache,   \* _font_cache: (role, size) -> font handle
    renderer,     \* << >> or <<[t, w, h]>>: the CardNewsRenderer in use
    raised,       \* the exception the last call ended with, or "none"
    slides,       \* the caller's slides_data list
    results,      \* what the last render call returned
    call,         \* the caller's last statement: <<name>> or <<name, arguments>>
    message,      \* the parts of the message of the exception __init__ raised
    pc,           \* which pure function the specification exercises, and its step
    text,         \* _wrap: the text argument
    font,         \* _wrap: the font argument (a name of Fonts)
    max_w,        \* _wrap: the max_w argument
    lines,        \* _wrap: the returned lines
    relines,      \* _wrap applied to the returned lines rejoined with "\n"
    body,         \* render_content: the body argument
    items,        \* render_content: the parsed items
    photo,        \* _fit_cover: photo.size, <<pw, ph>>
    target,       \* _fit_cover: <<w, h>>
    crop,         \* _fit_cover: the box given to photo.crop
    fitted,       \* _fit_cover: the size of the returned image
    grad,         \* _gradient_overlay: [h, alpha_top, alpha_bottom]
    alphas,       \* _gradient_overlay: the alpha drawn on each row, rows 0..h-1
    card,         \* render_content, one item card: its height and its lines
    drawn,        \* render_content, one item card: the lines drawn, in order
    layout,       \* render_content: canvas height, heading and number of items
    cards         \* render_content: the item cards drawn, [item, top, bottom]

vars == <<fs, font_cache, renderer, raised, slides, results, call, message, pc,
          text, font, max_w, lines, relines, body, items, photo, target, crop,
          fitted, grad, alphas, card, drawn, layout, cards>>

None == << >>

Some(v) == <<v>>

Max(a, b) == IF a >= b THEN a ELSE b

Min(a, b) == IF a <= b THEN a ELSE b

(***************************************************************************)
(* Bounds of the model.                                                    *)
(***************************************************************************)
MaxSlides == 3

\* _wrap: the longest text and the widest max_w.
MaxTextLen == 5

MaxWidth == 4

\* The bullet parser: the longest body enumerated.
MaxBodyLen == 5

\* _fit_cover: the largest width or height of a photo and of a target.
MaxDim == 9

\* _gradient_overlay: the tallest image and the largest alpha enumerated.
MaxHeight == 4

MaxAlpha == 16

\* The item cards of render_content: the tallest card, the tallest line
\* of a font, the most title or description lines of an item, the tallest
\* canvas and the most items.
MaxCardH == 100

MaxLineH == 32

MaxCardLines == 3

MaxCanvasH == 400

MaxItems == 4

(***************************************************************************)
(* Style registry: TEMPLATES.  The four display names are written in       *)
(* ASCII: clean_white, dark_premium, su_brand, health_green.               *)
(* overlay_alpha is in hundredths.                                         *)
(***************************************************************************)
TEMPLATES ==
    [n \in {"clean_white", "dark_premium", "su_brand", "health_green"} |->
        CASE n = "clean_white" ->
               [overlay_color |-> <<0, 0, 0>>, overlay_alpha |-> 45,
                text_white |-> TRUE, card_bg |-> "#FFFFFF", accent |-> "#3D7DD9",
                heading_text |-> "#1A1A1A", body_text |-> "#333333",
                muted |-> "#999999", item_bg |-> "#F2F7FF",
                item_border |-> "#3D7DD9"]
          [] n = "dark_premium" ->
               [overlay_color |-> <<10, 10, 20>>, overlay_alpha |-> 55,
                text_white |-> TRUE, card_bg |-> "#1A1A2E", accent |-> "#E94560",
                heading_text |-> "#FFFFFF", body_text |-> "#E0E0F0",
                muted |-> "#666680", item_bg |-> "#22223A",
                item_border |-> "#E94560"]
          [] n = "su_brand" ->
               [overlay_color |-> <<30, 15, 5>>, overlay_alpha |-> 50,
                text_white |-> TRUE, card_bg |-> "#FFFBF5", accent |-> "#C4956A",
                heading_text |-> "#2D1810", body_text |-> "#4A3728",
                muted |-> "#B0A090", item_bg |-> "#F5EDE3",
                item_border |-> "#C4956A"]
          [] n = "health_green" ->
               [overlay_color |-> <<10, 30, 20>>, overlay_alpha |-> 50,
                text_white |-> TRUE, card_bg |-> "#FFFFFF", accent |-> "#40916C",
                heading_text |-> "#1B4332", body_text |-> "#2D5A42",
                muted |-> "#88B0A0", item_bg |-> "#E8F5EE",
                item_border |-> "#40916C"]]

\* The template names a caller may pass: the registry's and two that are not.
TemplateNames == DOMAIN TEMPLATES \cup {"minimal", ""}

\* The canvas sizes a caller passes: the default, and one so low that the
\* photo area of a content slide has no height.
DefaultCanvas == <<1080, 1080>>

CanvasSizes == {DefaultCanvas, <<1080, 2>>}

\* The (template name, size) pairs a caller builds a renderer with: every
\* name on the default canvas, and one template on the low canvas.
RendererArgs ==
    (TemplateNames \X {DefaultCanvas}) \cup ({"clean_white"} \X CanvasSizes)

(***************************************************************************)
(* Font provider: _FONT_PATHS, _font_cache, _load_font.                    *)
(***************************************************************************)
_FONT_PATHS ==
    [role \in {"bold", "semibold", "regular", "medium", "serif"} |->
        CASE role = "bold" ->
               <<"~/Library/Fonts/Pretendard-Bold.otf",
                 "fonts/Pretendard-Bold.otf",
                 "/System/Library/Fonts/AppleSDGothicNeo.ttc">>
          [] role = "semibold" ->
               <<"~/Library/Fonts/Pretendard-SemiBold.otf",
                 "fonts/Pretendard-SemiBold.otf",
                 "/System/Library/Fonts/AppleSDGothicNeo.ttc">>
          [] role = "regular" ->
               <<"~/Library/Fonts/Pretendard-Regular.otf",
                 "fonts/Pretendard-Regular.otf",
                 "/System/Library/Fonts/AppleSDGothicNeo.ttc">>
          [] role = "medium" ->
               <<"~/Library/Fonts/Pretendard-Medium.otf",
                 "fonts/Pretendard-Medium.otf",
                 "/System/Library/Fonts/AppleSDGothicNeo.ttc">>
          [] role = "serif" ->
               <<"~/Library/Fonts/MaruBuri-SemiBold.ttf",
                 "fonts/MaruBuri-SemiBold.ttf",
                 "~/Library/Fonts/Pretendard-SemiBold.otf">>]

Range(s) == {s[i] : i \in DOMAIN s}

AllFontPaths == UNION {Range(_FONT_PATHS[role]) : role \in DOMAIN _FONT_PATHS}

RepoFontPaths ==
    {_FONT_PATHS[role][2] : role \in DOMAIN _FONT_PATHS}

\* What ImageFont.load_default() gives on a host: a FreeType font, or the
\* bitmap font of a Pillow older than 10.1 or built without FreeType.
BuiltinFonts == {"freetype", "bitmap"}

\* The hosts of the caller: no font file at all, and the repository's fonts
\* directory with a bold file that does not load; both with a FreeType
\* built-in font.  The hosts with the bitmap one are those of SpecText.
FsEnvs ==
    {[exists |-> {}, loads |-> {}, builtin |-> "freetype"],
     [exists |-> RepoFontPaths,
      loads |-> RepoFontPaths \ {"fonts/Pretendard-Bold.otf"},
      builtin |-> "freetype"]}

\* _FONT_PATHS.get(role, _FONT_PATHS["regular"])
CandidatePaths(role) ==
    IF role \in DOMAIN _FONT_PATHS THEN _FONT_PATHS[role] ELSE _FONT_PATHS["regular"]

\* ImageFont.load_default()
DefaultFont == [src |-> "load_default", size |-> 0]

\* The for loop leaving at the first path that exists: the built-in font
\* when that file does not load, as "break" in place of "continue" would.
RECURSIVE ResolveFontStopsAtBroken(_, _, _, _)
ResolveFontStopsAtBroken(files, paths, i, size) ==
    IF i > Len(paths) THEN DefaultFont
    ELSE IF paths[i] \in files.exists
         THEN (IF paths[i] \in files.loads
               THEN [src |-> paths[i], size |-> size] ELSE DefaultFont)
         ELSE ResolveFontStopsAtBroken(files, paths, i + 1, size)

\* The for loop of _load_font from candidate i on: the first path that
\* exists and that ImageFont.truetype loads, else the built-in font.
RECURSIVE ResolveFont(_, _, _, _)
ResolveFont(files, paths, i, size) ==
    IF i > Len(paths) THEN DefaultFont
    ELSE IF paths[i] \in files.exists /\ paths[i] \in files.loads
         THEN [src |-> paths[i], size |-> size]
         ELSE ResolveFont(files, paths, i + 1, size)

\* _load_font without its cache test: every call walks the paths and
\* stores what it finds.
_load_font_uncached(files, cache, role, size) ==
    [k \in DOMAIN cache \cup {<<role, size>>} |->
        IF k = <<role, size>>
        THEN ResolveFont(files, CandidatePaths(role), 1, size)
        ELSE cache[k]]

\* _load_font with a cache keyed by the role alone: a handle cached for
\* the role at any size is returned and stored for the requested size.
_load_font_by_role(files, cache, role, size) ==
    LET key == <<role, size>>
        same == {k \in DOMAIN cache : k[1] = role}
    IN [k \in DOMAIN cache \cup {key} |->
           IF k \in DOMAIN cache THEN cache[k]
           ELSE IF same # {} THEN cache[CHOOSE c \in same : TRUE]
           ELSE ResolveFont(files, CandidatePaths(role), 1, size)]

\* _load_font(role, size): the cache after the call.  The handle returned
\* is the entry of (role, size) in that cache.
_load_font(files, cache, role, size) ==
    LET key == <<role, size>> IN
    IF key \in DOMAIN cache THEN cache
    ELSE [k \in DOMAIN cache \cup {key} |->
             IF k = key THEN ResolveFont(files, CandidatePaths(role), 1, size)
             ELSE cache[k]]

\* _load_font for each (role, size) of a list, in order.
RECURSIVE LoadFonts(_, _, _)
LoadFonts(files, cache, keys) ==
    IF keys = << >> THEN cache
    ELSE LoadFonts(files, _load_font(files, cache, Head(keys)[1], Head(keys)[2]),
                   Tail(keys))

(***************************************************************************)
(* _open_image(source).  A source is None, an Image, an Image without      *)
(* height, bytes of an encoded image, bytes that are no image (Image.open  *)
(* raises), or a value of another type such as a str.                      *)
(***************************************************************************)
BgValues == {"None", "Image", "flat Image", "bytes", "badbytes", "str"}

\* photo.size of the photo a source opens as: 640 x 480 for the Image,
\* 640 x 0 for the one without height, 1 x 1 for the encoded one.
PhotoSize(source) ==
    CASE source = "Image" -> <<640, 480>>
      [] source = "flat Image" -> <<640, 0>>
      [] source = "bytes" -> <<1, 1>>

_open_image(source) ==
    CASE source = "None" -> [raised |-> "none", photo |-> FALSE, size |-> None]
      [] source \in {"Image", "flat Image", "bytes"} ->
            [raised |-> "none", photo |-> TRUE, size |-> PhotoSize(source)]
      [] source = "badbytes" ->
            [raised |-> "UnidentifiedImageError", photo |-> FALSE, size |-> None]
      [] OTHER -> [raised |-> "none", photo |-> FALSE, size |-> None]

(***************************************************************************)
(* Strings.  A str is a sequence of one-character strings.                 *)
(***************************************************************************)
\* The characters str.strip() and str.split() treat as whitespace: those
\* of str.isspace().  The ones without an escape are written by their code
\* points.
Whitespace ==
    {" ", "\n", "\t", "\r", "\f", "U+000B", "U+001C", "U+001D", "U+001E",
     "U+001F", "U+0085", "U+00A0", "U+1680", "U+2000", "U+2001", "U+2002",
     "U+2003", "U+2004", "U+2005", "U+2006", "U+2007", "U+2008", "U+2009",
     "U+200A", "U+2028", "U+2029", "U+202F", "U+205F", "U+3000"}

\* s.lstrip()
RECURSIVE LStrip(_)
LStrip(s) ==
    IF s # << >> /\ Head(s) \in Whitespace THEN LStrip(Tail(s)) ELSE s

\* s.rstrip()
RECURSIVE RStrip(_)
RStrip(s) ==
    IF s # << >> /\ s[Len(s)] \in Whitespace
    THEN RStrip(SubSeq(s, 1, Len(s) - 1)) ELSE s

\* s.strip()
Strip(s) == RStrip(LStrip(s))

\* s.split(sep) for a one-character sep: cur is the piece being read.
RECURSIVE SplitFrom(_, _, _)
SplitFrom(s, sep, cur) ==
    IF s = << >> THEN <<cur>>
    ELSE IF Head(s) = sep THEN <<cur>> \o SplitFrom(Tail(s), sep, << >>)
    ELSE SplitFrom(Tail(s), sep, Append(cur, Head(s)))

Split(s, sep) == SplitFrom(s, sep, << >>)

\* s.split(): the maximal runs of non-whitespace characters.
RECURSIVE WordsFrom(_, _)
WordsFrom(s, cur) ==
    IF s = << >> THEN (IF cur = << >> THEN << >> ELSE <<cur>>)
    ELSE IF Head(s) \in Whitespace
         THEN (IF cur = << >> THEN << >> ELSE <<cur>>) \o WordsFrom(Tail(s), << >>)
         ELSE WordsFrom(Tail(s), Append(cur, Head(s)))

Words(s) == WordsFrom(s, << >>)

\* sep.join(parts)
RECURSIVE Join(_, _)
Join(parts, sep) ==
    IF parts = << >> THEN << >>
    ELSE IF Len(parts) = 1 THEN parts[1]
    ELSE parts[1] \o <<sep>> \o Join(Tail(parts), sep)

(***************************************************************************)
(* Text measurement.  A font gives each glyph its advance and the          *)
(* horizontal extent [xMin, xMax] of its ink relative to the pen.  The     *)
(* box of a text holds the pen line from 0 to the total advance and every  *)
(* glyph's ink, so its left edge is <= 0 and is negative when a glyph's    *)
(* ink starts left of the origin (a negative left bearing).                *)
(***************************************************************************)
\* "plain": no ink outside the advance.  "bearing": the ink of "j" starts
\* one pixel left of its pen position.
Fonts == {"plain", "bearing"}

Glyph(f, c) ==
    CASE c = "a" -> [adv |-> 2, xMin |-> 0, xMax |-> 2]
      [] c = "j" -> [adv |-> 1, xMin |-> IF f = "bearing" THEN -1 ELSE 0, xMax |-> 1]
      [] c \in Whitespace -> [adv |-> 1, xMin |-> 0, xMax |-> 0]
      [] OTHER -> [adv |-> 1, xMin |-> 0, xMax |-> 1]

\* The box after the glyphs of t, drawn from pen position pen on.
RECURSIVE BBoxFrom(_, _, _, _)
BBoxFrom(f, t, pen, box) ==
    IF t = << >> THEN box
    ELSE LET g == Glyph(f, Head(t))
             to == pen + g.adv
         IN BBoxFrom(f, Tail(t), to,
                     [left |-> Min(box.left, pen + g.xMin),
                      right |-> Max(Max(box.right, to), pen + g.xMax)])

\* draw.textbbox((0, 0), t, font=f): the left edge [0] and the right edge [2].
textbbox(t, f) == BBoxFrom(f, t, 0, [left |-> 0, right |-> 0])

\* _tw(d, t, f)
_tw(t, f) == LET b == textbbox(t, f) IN b.right - b.left

(***************************************************************************)
(* CardNewsRenderer._wrap                                                  *)
(***************************************************************************)
\* The loop without the append that follows it: the last line is lost.
RECURSIVE WrapWordsNoFlush(_, _, _, _)
WrapWordsNoFlush(cur, rest, f, width) ==
    IF rest = << >> THEN << >>
    ELSE LET test == cur \o <<" ">> \o Head(rest) IN
         IF textbbox(test, f).right <= width
         THEN WrapWordsNoFlush(test, Tail(rest), f, width)
         ELSE <<cur>> \o WrapWordsNoFlush(Head(rest), Tail(rest), f, width)

\* _wrap: the loop over words[1:] with the line cur open, and the final
\* lines.append(cur).
RECURSIVE WrapWords(_, _, _, _)
WrapWords(cur, rest, f, width) ==
    IF rest = << >> THEN <<cur>>
    ELSE LET test == cur \o <<" ">> \o Head(rest) IN
         IF textbbox(test, f).right <= width
         THEN WrapWords(test, Tail(rest), f, width)
         ELSE <<cur>> \o WrapWords(Head(rest), Tail(rest), f, width)

\* The lines of one paragraph, a blank paragraph giving no line at all.
WrapParaSkipsBlank(para, f, width) ==
    LET words == Words(para) IN
    IF words = << >> THEN << >>
    ELSE WrapWords(words[1], Tail(words), f, width)

\* _wrap: the lines of one paragraph.
WrapPara(para, f, width) ==
    IF Strip(para) = << >> THEN << << >> >>
    ELSE LET words == Words(para) IN
         IF words = << >> THEN << << >> >>
         ELSE WrapWords(words[1], Tail(words), f, width)

RECURSIVE WrapParas(_, _, _)
WrapParas(paras, f, width) ==
    IF paras = << >> THEN << >>
    ELSE WrapPara(Head(paras), f, width) \o WrapParas(Tail(paras), f, width)

\* _wrap(draw, t, f, width)
_wrap(t, f, width) == WrapParas(Split(t, "\n"), f, width)

(***************************************************************************)
(* The bullet parser of render_content.  The markers U+2022 (bullet) and   *)
(* U+00B7 (middle dot) are written by their code points.                   *)
(***************************************************************************)
BulletMarkers == {"-", "U+2022", "U+00B7"}

\* The characters str.isdigit() accepts (Unicode 14: 788 characters): the
\* decimal digits of every script, and the superscript, subscript, circled,
\* parenthesised and full-stop digits.  The ones outside ASCII are written
\* by their code points.
Digits ==
    {"0", "1", "2", "3", "4", "5", "6", "7", "8", "9", "U+00B2", "U+00B3",
     "U+00B9", "U+0660", "U+0661", "U+0662", "U+0663", "U+0664", "U+0665",
     "U+0666", "U+0667", "U+0668", "U+0669", "U+06F0", "U+06F1", "U+06F2",
     "U+06F3", "U+06F4", "U+06F5", "U+06F6", "U+06F7", "U+06F8", "U+06F9",
     "U+07C0", "U+07C1", "U+07C2", "U+07C3", "U+07C4", "U+07C5", "U+07C6",
     "U+07C7", "U+07C8", "U+07C9", "U+0966", "U+0967", "U+0968", "U+0969",
     "U+096A", "U+096B", "U+096C", "U+096D", "U+096E", "U+096F", "U+09E6",
     "U+09E7", "U+09E8", "U+09E9", "U+09EA", "U+09EB", "U+09EC", "U+09ED",
     "U+09EE", "U+09EF", "U+0A66", "U+0A67", "U+0A68", "U+0A69", "U+0A6A",
     "U+0A6B", "U+0A6C", "U+0A6D", "U+0A6E", "U+0A6F", "U+0AE6", "U+0AE7",
     "U+0AE8", "U+0AE9", "U+0AEA", "U+0AEB", "U+0AEC", "U+0AED", "U+0AEE",
     "U+0AEF", "U+0B66", "U+0B67", "U+0B68", "U+0B69", "U+0B6A", "U+0B6B",
     "U+0B6C", "U+0B6D", "U+0B6E", "U+0B6F", "U+0BE6", "U+0BE7", "U+0BE8",
     "U+0BE9", "U+0BEA", "U+0BEB", "U+0BEC", "U+0BED", "U+0BEE", "U+0BEF",
     "U+0C66", "U+0C67", "U+0C68", "U+0C69", "U+0C6A", "U+0C6B", "U+0C6C",
     "U+0C6D", "U+0C6E", "U+0C6F", "U+0CE6", "U+0CE7", "U+0CE8", "U+0CE9",
     "U+0CEA", "U+0CEB", "U+0CEC", "U+0CED", "U+0CEE", "U+0CEF", "U+0D66",
     "U+0D67", "U+0D68", "U+0D69", "U+0D6A", "U+0D6B", "U+0D6C", "U+0D6D",
     "U+0D6E", "U+0D6F", "U+0DE6", "U+0DE7", "U+0DE8", "U+0DE9", "U+0DEA",
     "U+0DEB", "U+0DEC", "U+0DED", "U+0DEE", "U+0DEF", "U+0E50", "U+0E51",
     "U+0E52", "U+0E53", "U+0E54", "U+0E55", "U+0E56", "U+0E57", "U+0E58",
     "U+0E59", "U+0ED0", "U+0ED1", "U+0ED2", "U+0ED3", "U+0ED4", "U+0ED5",
     "U+0ED6", "U+0ED7", "U+0ED8", "U+0ED9", "U+0F20", "U+0F21", "U+0F22",
     "U+0F23", "U+0F24", "U+0F25", "U+0F26", "U+0F27", "U+0F28", "U+0F29",
     "U+1040", "U+1041", "U+1042", "U+1043", "U+1044", "U+1045", "U+1046",
     "U+1047", "U+1048", "U+1049", "U+1090", "U+1091", "U+1092", "U+1093",
     "U+1094", "U+1095", "U+1096", "U+1097", "U+1098", "U+1099", "U+1369",
     "U+136A", "U+136B", "U+136C", "U+136D", "U+136E", "U+136F", "U+1370",
     "U+1371", "U+17E0", "U+17E1", "U+17E2", "U+17E3", "U+17E4", "U+17E5",
     "U+17E6", "U+17E7", "U+17E8", "U+17E9", "U+1810", "U+1811", "U+1812",
     "U+1813", "U+1814", "U+1815", "U+1816", "U+1817", "U+1818", "U+1819",
     "U+1946", "U+1947", "U+1948", "U+1949", "U+194A", "U+194B", "U+194C",
     "U+194D", "U+194E", "U+194F", "U+19D0", "U+19D1", "U+19D2", "U+19D3",
     "U+19D4", "U+19D5", "U+19D6", "U+19D7", "U+19D8", "U+19D9", "U+19DA",
     "U+1A80", "U+1A81", "U+1A82", "U+1A83", "U+1A84", "U+1A85", "U+1A86",
     "U+1A87", "U+1A88", "U+1A89", "U+1A90", "U+1A91", "U+1A92", "U+1A93",
     "U+1A94", "U+1A95", "U+1A96", "U+1A97", "U+1A98", "U+1A99", "U+1B50",
     "U+1B51", "U+1B52", "U+1B53", "U+1B54", "U+1B55", "U+1B56", "U+1B57",
     "U+1B58", "U+1B59", "U+1BB0", "U+1BB1", "U+1BB2", "U+1BB3", "U+1BB4",
     "U+1BB5", "U+1BB6", "U+1BB7", "U+1BB8", "U+1BB9", "U+1C40", "U+1C41",
     "U+1C42", "U+1C43", "U+1C44", "U+1C45", "U+1C46", "U+1C47", "U+1C48",
     "U+1C49", "U+1C50", "U+1C51", "U+1C52", "U+1C53", "U+1C54", "U+1C55",
     "U+1C56", "U+1C57", "U+1C58", "U+1C59", "U+2070", "U+2074", "U+2075",
     "U+2076", "U+2077", "U+2078", "U+2079", "U+2080", "U+2081", "U+2082",
     "U+2083", "U+2084", "U+2085", "U+2086", "U+2087", "U+2088", "U+2089",
     "U+2460", "U+2461", "U+2462", "U+2463", "U+2464", "U+2465", "U+2466",
     "U+2467", "U+2468", "U+2474", "U+2475", "U+2476", "U+2477", "U+2478",
     "U+2479", "U+247A", "U+247B", "U+247C", "U+2488", "U+2489", "U+248A",
     "U+248B", "U+248C", "U+248D", "U+248E", "U+248F", "U+2490", "U+24EA",
     "U+24F5", "U+24F6", "U+24F7", "U+24F8", "U+24F9", "U+24FA", "U+24FB",
     "U+24FC", "U+24FD", "U+24FF", "U+2776", "U+2777", "U+2778", "U+2779",
     "U+277A", "U+277B", "U+277C", "U+277D", "U+277E", "U+2780", "U+2781",
     "U+2782", "U+2783", "U+2784", "U+2785", "U+2786", "U+2787", "U+2788",
     "U+278A", "U+278B", "U+278C", "U+278D", "U+278E", "U+278F", "U+2790",
     "U+2791", "U+2792", "U+A620", "U+A621", "U+A622", "U+A623", "U+A624",
     "U+A625", "U+A626", "U+A627", "U+A628", "U+A629", "U+A8D0", "U+A8D1",
     "U+A8D2", "U+A8D3", "U+A8D4", "U+A8D5", "U+A8D6", "U+A8D7", "U+A8D8",
     "U+A8D9", "U+A900", "U+A901", "U+A902", "U+A903", "U+A904", "U+A905",
     "U+A906", "U+A907", "U+A908", "U+A909", "U+A9D0", "U+A9D1", "U+A9D2",
     "U+A9D3", "U+A9D4", "U+A9D5", "U+A9D6", "U+A9D7", "U+A9D8", "U+A9D9",
     "U+A9F0", "U+A9F1", "U+A9F2", "U+A9F3", "U+A9F4", "U+A9F5", "U+A9F6",
     "U+A9F7", "U+A9F8", "U+A9F9", "U+AA50", "U+AA51", "U+AA52", "U+AA53",
     "U+AA54", "U+AA55", "U+AA56", "U+AA57", "U+AA58", "U+AA59", "U+ABF0",
     "U+ABF1", "U+ABF2", "U+ABF3", "U+ABF4", "U+ABF5", "U+ABF6", "U+ABF7",
     "U+ABF8", "U+ABF9", "U+FF10", "U+FF11", "U+FF12", "U+FF13", "U+FF14",
     "U+FF15", "U+FF16", "U+FF17", "U+FF18", "U+FF19", "U+104A0", "U+104A1",
     "U+104A2", "U+104A3", "U+104A4", "U+104A5", "U+104A6", "U+104A7",
     "U+104A8", "U+104A9", "U+10A40", "U+10A41", "U+10A42", "U+10A43",
     "U+10D30", "U+10D31", "U+10D32", "U+10D33", "U+10D34", "U+10D35",
     "U+10D36", "U+10D37", "U+10D38", "U+10D39", "U+10E60", "U+10E61",
     "U+10E62", "U+10E63", "U+10E64", "U+10E65", "U+10E66", "U+10E67",
     "U+10E68", "U+11052", "U+11053", "U+11054", "U+11055", "U+11056",
     "U+11057", "U+11058", "U+11059", "U+1105A", "U+11066", "U+11067",
     "U+11068", "U+11069", "U+1106A", "U+1106B", "U+1106C", "U+1106D",
     "U+1106E", "U+1106F", "U+110F0", "U+110F1", "U+110F2", "U+110F3",
     "U+110F4", "U+110F5", "U+110F6", "U+110F7", "U+110F8", "U+110F9",
     "U+11136", "U+11137", "U+11138", "U+11139", "U+1113A", "U+1113B",
     "U+1113C", "U+1113D", "U+1113E", "U+1113F", "U+111D0", "U+111D1",
     "U+111D2", "U+111D3", "U+111D4", "U+111D5", "U+111D6", "U+111D7",
     "U+111D8", "U+111D9", "U+112F0", "U+112F1", "U+112F2", "U+112F3",
     "U+112F4", "U+112F5", "U+112F6", "U+112F7", "U+112F8", "U+112F9",
     "U+11450", "U+11451", "U+11452", "U+11453", "U+11454", "U+11455",
     "U+11456", "U+11457", "U+11458", "U+11459", "U+114D0", "U+114D1",
     "U+114D2", "U+114D3", "U+114D4", "U+114D5", "U+114D6", "U+114D7",
     "U+114D8", "U+114D9", "U+11650", "U+11651", "U+11652", "U+11653",
     "U+11654", "U+11655", "U+11656", "U+11657", "U+11658", "U+11659",
     "U+116C0", "U+116C1", "U+116C2", "U+116C3", "U+116C4", "U+116C5",
     "U+116C6", "U+116C7", "U+116C8", "U+116C9", "U+11730", "U+11731",
     "U+11732", "U+11733", "U+11734", "U+11735", "U+11736", "U+11737",
     "U+11738", "U+11739", "U+118E0", "U+118E1", "U+118E2", "U+118E3",
     "U+118E4", "U+118E5", "U+118E6", "U+118E7", "U+118E8", "U+118E9",
     "U+11950", "U+11951", "U+11952", "U+11953", "U+11954", "U+11955",
     "U+11956", "U+11957", "U+11958", "U+11959", "U+11C50", "U+11C51",
     "U+11C52", "U+11C53", "U+11C54", "U+11C55", "U+11C56", "U+11C57",
     "U+11C58", "U+11C59", "U+11D50", "U+11D51", "U+11D52", "U+11D53",
     "U+11D54", "U+11D55", "U+11D56", "U+11D57", "U+11D58", "U+11D59",
     "U+11DA0", "U+11DA1", "U+11DA2", "U+11DA3", "U+11DA4", "U+11DA5",
     "U+11DA6", "U+11DA7", "U+11DA8", "U+11DA9", "U+16A60", "U+16A61",
     "U+16A62", "U+16A63", "U+16A64", "U+16A65", "U+16A66", "U+16A67",
     "U+16A68", "U+16A69", "U+16AC0", "U+16AC1", "U+16AC2", "U+16AC3",
     "U+16AC4", "U+16AC5", "U+16AC6", "U+16AC7", "U+16AC8", "U+16AC9",
     "U+16B50", "U+16B51", "U+16B52", "U+16B53", "U+16B54", "U+16B55",
     "U+16B56", "U+16B57", "U+16B58", "U+16B59", "U+1D7CE", "U+1D7CF",
     "U+1D7D0", "U+1D7D1", "U+1D7D2", "U+1D7D3", "U+1D7D4", "U+1D7D5",
     "U+1D7D6", "U+1D7D7", "U+1D7D8", "U+1D7D9", "U+1D7DA", "U+1D7DB",
     "U+1D7DC", "U+1D7DD", "U+1D7DE", "U+1D7DF", "U+1D7E0", "U+1D7E1",
     "U+1D7E2", "U+1D7E3", "U+1D7E4", "U+1D7E5", "U+1D7E6", "U+1D7E7",
     "U+1D7E8", "U+1D7E9", "U+1D7EA", "U+1D7EB", "U+1D7EC", "U+1D7ED",
     "U+1D7EE", "U+1D7EF", "U+1D7F0", "U+1D7F1", "U+1D7F2", "U+1D7F3",
     "U+1D7F4", "U+1D7F5", "U+1D7F6", "U+1D7F7", "U+1D7F8", "U+1D7F9",
     "U+1D7FA", "U+1D7FB", "U+1D7FC", "U+1D7FD", "U+1D7FE", "U+1D7FF",
     "U+1E140", "U+1E141", "U+1E142", "U+1E143", "U+1E144", "U+1E145",
     "U+1E146", "U+1E147", "U+1E148", "U+1E149", "U+1E2F0", "U+1E2F1",
     "U+1E2F2", "U+1E2F3", "U+1E2F4", "U+1E2F5", "U+1E2F6", "U+1E2F7",
     "U+1E2F8", "U+1E2F9", "U+1E950", "U+1E951", "U+1E952", "U+1E953",
     "U+1E954", "U+1E955", "U+1E956", "U+1E957", "U+1E958", "U+1E959",
     "U+1F100", "U+1F101", "U+1F102", "U+1F103", "U+1F104", "U+1F105",
     "U+1F106", "U+1F107", "U+1F108", "U+1F109", "U+1F10A", "U+1FBF0",
     "U+1FBF1", "U+1FBF2", "U+1FBF3", "U+1FBF4", "U+1FBF5", "U+1FBF6",
     "U+1FBF7", "U+1FBF8", "U+1FBF9"}

\* line[n:]
DropFirst(line, n) == SubSeq(line, n + 1, Len(line))

\* is_bullet for a stripped, non-empty line.
IsBullet(line) ==
    \/ Head(line) \in BulletMarkers
    \/ Len(line) > 2 /\ line[1] \in Digits /\ line[2] \in {".", ")"}

\* text for a stripped, non-empty line.
BulletText(line) ==
    IF Head(line) \in BulletMarkers THEN Strip(DropFirst(line, 1))
    ELSE IF Len(line) > 2 /\ line[1] \in Digits /\ line[2] \in {".", ")"}
         THEN Strip(DropFirst(line, 2))
         ELSE line

\* The description with text added and no separator.
AppendDescNoSpace(desc, t) == desc \o t

\* current_item["desc"] += (" " if current_item["desc"] else "") + text
AppendDesc(desc, t) == desc \o (IF desc # << >> THEN <<" ">> ELSE << >>) \o t

\* st.items with the open item, if any, appended.
Flush(st) == st.items \o st.current

\* The loop body with a prose line opening an item when none is open,
\* instead of being appended to items as a closed one.
ParseLineOpensProse(st, raw) ==
    LET line == Strip(raw) IN
    IF line = << >> THEN [items |-> Flush(st), current |-> None]
    ELSE IF IsBullet(line)
         THEN [items |-> Flush(st),
               current |-> Some([title |-> BulletText(line), desc |-> << >>])]
         ELSE IF st.current # None
              THEN [items |-> st.items,
                    current |-> Some([title |-> st.current[1].title,
                                      desc |-> AppendDesc(st.current[1].desc,
                                                          BulletText(line))])]
              ELSE [items |-> st.items,
                    current |-> Some([title |-> BulletText(line), desc |-> << >>])]

\* One iteration of the loop over body.strip().split("\n"):
\* st = [items, current], current being None or the open item.
ParseLine(st, raw) ==
    LET line == Strip(raw) IN
    IF line = << >> THEN [items |-> Flush(st), current |-> None]
    ELSE IF IsBullet(line)
         THEN [items |-> Flush(st),
               current |-> Some([title |-> BulletText(line), desc |-> << >>])]
         ELSE IF st.current # None
              THEN [items |-> st.items,
                    current |-> Some([title |-> st.current[1].title,
                                      desc |-> AppendDesc(st.current[1].desc,
                                                          BulletText(line))])]
              ELSE [items |-> Append(st.items,
                                     [title |-> BulletText(line), desc |-> << >>]),
                    current |-> None]

RECURSIVE ParseLines(_, _)
ParseLines(st, raws) ==
    IF raws = << >> THEN st ELSE ParseLines(ParseLine(st, Head(raws)), Tail(raws))

\* The items render_content parses from body.
ParseBody(b) ==
    LET st == ParseLines([items |-> << >>, current |-> None],
                         Split(Strip(b), "\n"))
        found == Flush(st)
    IN IF found = << >> THEN <<[title |-> Strip(b), desc |-> << >>]>> ELSE found

(***************************************************************************)
(* Floating point.  Python's float is the IEEE 754 double: every operation *)
(* gives the double nearest to the exact result, ties to the even          *)
(* mantissa.  A double is [s, m, e] with value s * m * 2^e, s in {1, -1}   *)
(* and m a natural number of exactly 53 bits, or << >> for zero.  Natural  *)
(* numbers of that size are little-endian sequences of limbs of 13 bits.   *)
(* Subnormal and infinite values do not occur for the sizes of an image.   *)
(***************************************************************************)
Limb == 2^13

RECURSIVE BigOfInt(_)
BigOfInt(n) == IF n = 0 THEN << >> ELSE <<n % Limb>> \o BigOfInt(n \div Limb)

RECURSIVE IntOfBig(_)
IntOfBig(N) == IF N = << >> THEN 0 ELSE Head(N) + Limb * IntOfBig(Tail(N))

\* N without its leading zero limbs.
RECURSIVE BigTrim(_)
BigTrim(N) ==
    IF N # << >> /\ N[Len(N)] = 0 THEN BigTrim(SubSeq(N, 1, Len(N) - 1)) ELSE N

\* N * c + carry for a small c
RECURSIVE BigMulCarry(_, _, _)
BigMulCarry(N, c, carry) ==
    IF N = << >> THEN BigOfInt(carry)
    ELSE LET v == Head(N) * c + carry
         IN <<v % Limb>> \o BigMulCarry(Tail(N), c, v \div Limb)

BigMulSmall(N, c) == BigMulCarry(N, c, 0)

\* A + C + carry
RECURSIVE BigAddCarry(_, _, _)
BigAddCarry(A, C, carry) ==
    IF A = << >> /\ C = << >> THEN BigOfInt(carry)
    ELSE LET v == (IF A = << >> THEN 0 ELSE Head(A))
                  + (IF C = << >> THEN 0 ELSE Head(C)) + carry
         IN <<v % Limb>> \o BigAddCarry(IF A = << >> THEN A ELSE Tail(A),
                                       IF C = << >> THEN C ELSE Tail(C),
                                       v \div Limb)

\* A - C - borrow, for A >= C + borrow
RECURSIVE BigSubBorrow(_, _, _)
BigSubBorrow(A, C, borrow) ==
    IF A = << >> THEN << >>
    ELSE LET v == Head(A) - (IF C = << >> THEN 0 ELSE Head(C)) - borrow
         IN <<(v + Limb) % Limb>>
            \o BigSubBorrow(Tail(A), IF C = << >> THEN C ELSE Tail(C),
                            IF v < 0 THEN 1 ELSE 0)

RECURSIVE BigCmpFrom(_, _, _)
BigCmpFrom(A, C, i) ==
    IF i = 0 THEN 0
    ELSE IF A[i] # C[i] THEN (IF A[i] < C[i] THEN -1 ELSE 1)
    ELSE BigCmpFrom(A, C, i - 1)

\* -1, 0 or 1 as A is less than, equal to or greater than C.
BigCmp(A, C) ==
    LET a == BigTrim(A)
        c == BigTrim(C)
    IN IF Len(a) # Len(c) THEN (IF Len(a) < Len(c) THEN -1 ELSE 1)
       ELSE BigCmpFrom(a, c, Len(a))

RECURSIVE BitLen(_)
BitLen(n) == IF n = 0 THEN 0 ELSE 1 + BitLen(n \div 2)

BigBitLen(N) ==
    LET n == BigTrim(N) IN
    IF n = << >> THEN 0 ELSE 13 * (Len(n) - 1) + BitLen(n[Len(n)])

\* N * 2^k
BigShl(N, k) == [i \in 1..(k \div 13) |-> 0] \o BigMulSmall(N, 2^(k % 13))

\* N \div 2^k, and whether a one bit was shifted out.
BigShr(N, k) ==
    LET a == Min(k \div 13, Len(N))
        rest == IF a = Len(N) THEN << >> ELSE SubSeq(N, a + 1, Len(N))
        low == 2^(k % 13)
        high == 2^(13 - (k % 13))
    IN [q |-> [i \in DOMAIN rest |->
                  rest[i] \div low
                  + (IF i < Len(rest) THEN (rest[i + 1] % low) * high ELSE 0)],
        lost |-> \/ \E i \in 1..a : N[i] # 0
                 \/ rest # << >> /\ rest[1] % low # 0]

\* The double s * m1 * 2^e for a mantissa of 53 bits, or of 54 after a carry
\* out of the rounding.
Renormalise(s, m1, e) ==
    IF BigBitLen(m1) = 54
    THEN [s |-> s, m |-> BigTrim(BigShr(m1, 1).q), e |-> e + 1]
    ELSE [s |-> s, m |-> m1, e |-> e]

\* Round half to even: m0 is the mantissa cut to 53 bits, round_bit the bit
\* cut last, below whether anything under that bit is not zero.
RoundHalfEven(s, m0, round_bit, below, e) ==
    LET up == round_bit = 1 /\ (below \/ m0[1] % 2 = 1)
    IN Renormalise(s, BigTrim(IF up THEN BigAddCarry(m0, << >>, 1) ELSE m0), e)

\* The rounding of the 54 leading bits sh.q of a longer number.
RoundCut(s, sh, e, sticky) ==
    RoundHalfEven(s, BigShr(sh.q, 1).q, sh.q[1] % 2, sticky \/ sh.lost, e)

\* FloatRound for a trimmed n of L bits.
RoundBits(s, n, L, e, sticky) ==
    IF L = 0 THEN [s |-> s, m |-> << >>, e |-> 0]
    ELSE IF L <= 53
    THEN [s |-> s, m |-> BigTrim(BigShl(n, 53 - L)), e |-> e - (53 - L)]
    ELSE RoundCut(s, BigShr(n, L - 54), e + (L - 53), sticky)

\* The double nearest to s * (N + f) * 2^e, where 0 <= f < 1 and f > 0 iff
\* sticky; N has 54 bits or more when sticky.
FloatRound(s, N, e, sticky) ==
    RoundBits(s, BigTrim(N), BigBitLen(N), e, sticky)

\* j limbs of the fraction r / b for r < b, and the remainder left.
RECURSIVE FracLimbs(_, _, _)
FracLimbs(r, b, j) ==
    IF j = 0 THEN [n |-> << >>, r |-> r]
    ELSE LET rest == FracLimbs((r * Limb) % b, b, j - 1)
         IN [n |-> Append(rest.n, (r * Limb) \div b), r |-> rest.r]

Sign(n) == IF n < 0 THEN -1 ELSE 1

Magnitude(n) == IF n < 0 THEN -n ELSE n

\* a / b for two ints, b # 0
TrueDiv(a, b) ==
    LET f == FracLimbs(Magnitude(a) % Magnitude(b), Magnitude(b), 6)
    IN FloatRound(Sign(a) * Sign(b),
                  f.n \o BigOfInt(Magnitude(a) \div Magnitude(b)), -(13 * 6),
                  f.r # 0)

\* n * x for an int n and a float x
MulIntFloat(n, x) ==
    FloatRound(Sign(n) * x.s, BigMulSmall(x.m, Magnitude(n)), x.e, FALSE)

\* n + x for an int n and a float x.  Terms of opposite signs that cancel
\* exactly give positive zero.
AddIntFloat(n, x) ==
    LET e == Min(x.e, 0)
        A == BigShl(BigOfInt(Magnitude(n)), -e)
        X == BigShl(x.m, x.e - e)
    IN IF Sign(n) = x.s \/ x.m = << >> \/ n = 0
       THEN FloatRound(IF x.m = << >> THEN Sign(n) ELSE x.s,
                       BigAddCarry(A, X, 0), e, FALSE)
       ELSE IF BigCmp(A, X) = 0
            THEN [s |-> 1, m |-> << >>, e |-> 0]
            ELSE IF BigCmp(A, X) > 0
                 THEN FloatRound(Sign(n), BigSubBorrow(A, X, 0), e, FALSE)
                 ELSE FloatRound(x.s, BigSubBorrow(X, A, 0), e, FALSE)

\* The next i bits of the quotient of R by m as a number, for R < 2 * m and
\* i < 31, and the remainder left.
RECURSIVE DivBits(_, _, _)
DivBits(R, m, i) ==
    IF i = 0 THEN [q |-> 0, r |-> R]
    ELSE LET ge == BigCmp(R, m) >= 0
             R1 == IF ge THEN BigSubBorrow(R, m, 0) ELSE R
             rest == DivBits(BigTrim(BigMulSmall(R1, 2)), m, i - 1)
         IN [q |-> (IF ge THEN 2^(i - 1) ELSE 0) + rest.q, r |-> rest.r]

\* n / x for an int n and a float x # 0: 56 bits of the quotient of the
\* mantissas, 14 at a time, rounded.
DivIntFloat(n, x) ==
    IF n = 0 THEN [s |-> x.s, m |-> << >>, e |-> 0]
    ELSE LET up == 53 - BitLen(Magnitude(n))
             d1 == DivBits(BigShl(BigOfInt(Magnitude(n)), up), x.m, 14)
             d2 == DivBits(d1.r, x.m, 14)
             d3 == DivBits(d2.r, x.m, 14)
             d4 == DivBits(d3.r, x.m, 14)
             Q == BigMulCarry(BigMulCarry(BigMulCarry(BigOfInt(d1.q),
                                                      2^14, d2.q),
                                          2^14, d3.q),
                              2^14, d4.q)
         IN FloatRound(Sign(n) * x.s, Q, -55 - up - x.e, BigTrim(d4.r) # << >>)

\* x > y for two floats that are not negative
FloatGreater(x, y) ==
    LET e == Min(x.e, y.e) IN
    BigCmp(BigShl(x.m, x.e - e), BigShl(y.m, y.e - e)) > 0

\* int(x): x truncated toward zero
int(x) ==
    x.s * IntOfBig(IF x.e >= 0 THEN BigShl(x.m, x.e) ELSE BigShr(x.m, -x.e).q)

(***************************************************************************)
(* Raster primitives.                                                      *)
(***************************************************************************)
\* The exception _fit_cover(photo, w, h) ends with for photo.size = (pw, ph),
\* "none" when it returns.  w / h and pw / ph raise ZeroDivisionError for a
\* target or a photo without height.  pw / target_ratio raises it for a
\* ratio of 0.0, the ratio of a target without width; it is computed when
\* photo_ratio > target_ratio fails, which with that ratio is for pw = 0.
FitRaised(pw, ph, w, h) ==
    IF h = 0 \/ ph = 0 THEN "ZeroDivisionError"
    ELSE IF w = 0 /\ pw = 0 THEN "ZeroDivisionError"
    ELSE "none"

\* _fit_cover(photo, w, h) for photo.size = (pw, ph): the exception it ends
\* with, or the box given to photo.crop and the size of the image returned
\* by resize.  crop and resize are Pillow's and are taken to return.
_fit_cover(pw, ph, w, h) ==
    IF FitRaised(pw, ph, w, h) # "none"
    THEN [raised |-> FitRaised(pw, ph, w, h), box |-> None, size |-> None]
    ELSE LET target_ratio == TrueDiv(w, h)
             photo_ratio == TrueDiv(pw, ph)
         IN IF FloatGreater(photo_ratio, target_ratio)
            THEN LET new_w == int(MulIntFloat(ph, target_ratio))
                     left == (pw - new_w) \div 2
                 IN [raised |-> "none",
                     box |-> Some([left |-> left, top |-> 0,
                                   right |-> left + new_w, bottom |-> ph]),
                     size |-> <<w, h>>]
            ELSE LET new_h == int(DivIntFloat(pw, target_ratio))
                     top == (ph - new_h) \div 2
                 IN [raised |-> "none",
                     box |-> Some([left |-> 0, top |-> top, right |-> pw,
                                   bottom |-> top + new_h]),
                     size |-> <<w, h>>]

\* The alpha of row y with t = y / h: the last row stops short of alpha_bottom.
RowAlphaOverHeight(h, alpha_top, alpha_bottom, y) ==
    alpha_top + ((alpha_bottom - alpha_top) * y) \div h

\* _gradient_overlay: a = int(alpha_top + (alpha_bottom - alpha_top) * t)
\* with t = y / max(h - 1, 1).
RowAlpha(h, alpha_top, alpha_bottom, y) ==
    LET t == TrueDiv(y, Max(h - 1, 1))
    IN int(AddIntFloat(alpha_top, MulIntFloat(alpha_bottom - alpha_top, t)))

\* _gradient_overlay: the alpha of the line drawn on each row; row y is entry y + 1.
_gradient_overlay(h, alpha_top, alpha_bottom) ==
    [r \in 1..h |-> RowAlpha(h, alpha_top, alpha_bottom, r - 1)]

(***************************************************************************)
(* CardNewsRenderer.  Each render_* operator gives what the call does:     *)
(* the exception it ends with ("none" when it returns), the image it       *)
(* returns and the font cache it leaves.  An image records the font        *)
(* handles it was drawn with and, for a content slide, the items parsed    *)
(* from its body.  The other text fields do not change which fonts are     *)
(* loaded nor what render_all passes on, and are left to SpecWrap.         *)
(***************************************************************************)
\* __init__ without its membership test: any name gives a renderer.
__init__unchecked(template_name, size) ==
    [raised |-> "none", message |-> << >>,
     self |-> Some([t |-> template_name, w |-> size[1], h |-> size[2]])]

\* CardNewsRenderer.__init__(template_name, size)
__init__(template_name, size) ==
    IF template_name \notin DOMAIN TEMPLATES
    THEN [raised |-> "ValueError", self |-> None,
          message |-> <<"unknown template: ", template_name>>]
    ELSE [raised |-> "none", message |-> << >>,
          self |-> Some([t |-> template_name, w |-> size[1], h |-> size[2]])]

\* The handles _load_font returned for the keys, in order.
Handles(cache, keys) == [i \in DOMAIN keys |-> cache[keys[i]]]

Image(self, kind, has_photo, slide_num, total_slides, fonts, texts, parsed) ==
    [kind |-> kind, t |-> self.t, w |-> self.w, h |-> self.h,
     photo |-> has_photo, slide_num |-> slide_num, total_slides |-> total_slides,
     fonts |-> fonts, texts |-> texts, items |-> parsed]

Raise(exc, cache) == [raised |-> exc, image |-> None, cache |-> cache]

Return(img, cache) == [raised |-> "none", image |-> Some(img), cache |-> cache]

\* The literal 0.38: the float nearest to 38 / 100.
PhotoShare == TrueDiv(38, 100)

\* photo_h = int(self.h * 0.38)
PhotoHeight(h) == int(MulIntFloat(h, PhotoShare))

\* photo_h on the canvases a caller builds, computed once for each.
CanvasPhotoHeights == {<<sz[2], PhotoHeight(sz[2])>> : sz \in CanvasSizes}

\* photo_h = int(self.h * 0.38) in render_content
photo_h(h) ==
    LET known == {p \in CanvasPhotoHeights : p[1] = h}
    IN IF known = {} THEN PhotoHeight(h) ELSE (CHOOSE p \in known : TRUE)[2]

\* if photo: _fit_cover(photo, w, h), for the result o of _open_image: the
\* exception the call ends with, "none" when it returns or is not made.  An
\* Image object is true whatever its size.
Fit(o, w, h) ==
    IF o.raised = "none" /\ o.photo
    THEN FitRaised(o.size[1], o.size[2], w, h)
    ELSE "none"

\* d.textbbox((0, 0), t, font=f) raises ValueError for a font that is no
\* FreeType font, whatever the text: _tw, _th, and _wrap from the second
\* word of a paragraph on.
\* (A Pillow that measures with its bitmap font raises UnicodeEncodeError
\* on the sample glyph, which is outside Latin-1, in the same places.)
TextbboxRaises(files, f) == files.builtin = "bitmap" /\ f = DefaultFont

\* _th(draw, sample glyph, font) for the fonts of the keys, in order, each
\* after the _wrap calls with that font: the exception of the first
\* textbbox that raises, or "none".
Measure(files, cache, keys) ==
    IF \E i \in DOMAIN keys : TextbboxRaises(files, cache[keys[i]])
    THEN "ValueError" ELSE "none"

\* render_cover(title, subtitle, bg_image): both fonts are loaded, then
\* the title is wrapped and measured with the first, and the subtitle
\* with the second when it is not empty.
render_cover(self, title, subtitle, bg_image, files, cache) ==
    LET o == _open_image(bg_image)
        fit == Fit(o, self.w, self.h)
        keys == <<(<<"bold", 72>>), (<<"medium", 32>>)>>
        after == LoadFonts(files, cache, keys)
        typeset == Measure(files, after,
                        IF subtitle # << >> THEN keys ELSE SubSeq(keys, 1, 1))
    IN IF o.raised # "none" THEN Raise(o.raised, cache)
       ELSE IF fit # "none" THEN Raise(fit, cache)
       ELSE IF typeset # "none" THEN Raise(typeset, after)
       ELSE Return(Image(self, "cover", o.photo, None, None,
                         Handles(after, keys), <<title, subtitle>>, << >>),
                   after)

\* The _load_font calls of render_content with a number badge whose font
\* shrinks as the slide number grows.
ContentFontsBadgeShrinks(has_photo, slide_num, total_slides) ==
    (IF has_photo THEN <<(<<"bold", 42>>)>> ELSE <<(<<"bold", 38>>)>>)
    \o (IF slide_num = None THEN << >>
        ELSE IF has_photo THEN <<(<<"bold", 27 - slide_num[1]>>)>>
        ELSE <<(<<"bold", 25 - slide_num[1]>>)>>)
    \o <<(<<"medium", 30>>), (<<"regular", 24>>)>>
    \o (IF slide_num # None /\ total_slides # None
        THEN <<(<<"regular", 22>>)>> ELSE << >>)

\* The _load_font calls of render_content, in order.
ContentFonts(has_photo, slide_num, total_slides) ==
    (IF has_photo THEN <<(<<"bold", 42>>)>> ELSE <<(<<"bold", 38>>)>>)
    \o (IF slide_num = None THEN << >>
        ELSE IF has_photo THEN <<(<<"bold", 26>>)>> ELSE <<(<<"bold", 24>>)>>)
    \o <<(<<"medium", 30>>), (<<"regular", 24>>)>>
    \o (IF slide_num # None /\ total_slides # None
        THEN <<(<<"regular", 22>>)>> ELSE << >>)

\* The fonts of render_content in the groups it loads them in: each
\* group is loaded, then measured, before the next is loaded.  The groups
\* are the heading font, the badge font when there is a slide number, the
\* two item fonts, and the page-number font when there is one.
ContentGroups(keys, slide_num) ==
    LET n == IF slide_num = None THEN 1 ELSE 2
    IN <<SubSeq(keys, 1, 1)>>
       \o (IF n = 2 THEN <<SubSeq(keys, 2, 2)>> ELSE << >>)
       \o <<SubSeq(keys, n + 1, n + 2)>>
       \o (IF Len(keys) > n + 2 THEN <<SubSeq(keys, n + 3, Len(keys))>> ELSE << >>)

\* The _load_font and textbbox calls of the groups, in order: the exception
\* of the first textbbox that raises, and the cache by then.
RECURSIVE Typeset(_, _, _)
Typeset(files, cache, groups) ==
    IF groups = << >> THEN [raised |-> "none", cache |-> cache]
    ELSE LET after == LoadFonts(files, cache, Head(groups))
         IN IF Measure(files, after, Head(groups)) # "none"
            THEN [raised |-> Measure(files, after, Head(groups)), cache |-> after]
            ELSE Typeset(files, after, Tail(groups))

\* render_content(heading, body, slide_num, total_slides, bg_image)
render_content(self, heading, b, slide_num, total_slides, bg_image, files, cache) ==
    LET o == _open_image(bg_image)
        fit == Fit(o, self.w, photo_h(self.h))
        keys == ContentFonts(o.photo, slide_num, total_slides)
        typeset == Typeset(files, cache, ContentGroups(keys, slide_num))
    IN IF o.raised # "none" THEN Raise(o.raised, cache)
       ELSE IF fit # "none" THEN Raise(fit, cache)
       ELSE IF typeset.raised # "none" THEN Raise(typeset.raised, typeset.cache)
       ELSE Return(Image(self, "content", o.photo, slide_num, total_slides,
                         Handles(typeset.cache, keys), <<heading>>, ParseBody(b)),
                   typeset.cache)

\* render_closing(cta_text, account_name, bg_image): both fonts are loaded,
\* then cta_text is wrapped and measured with the first, and account_name
\* with the second when it is not empty.
render_closing(self, cta_text, account_name, bg_image, files, cache) ==
    LET o == _open_image(bg_image)
        fit == Fit(o, self.w, self.h)
        keys == <<(<<"serif", 48>>), (<<"medium", 30>>)>>
        after == LoadFonts(files, cache, keys)
        typeset == Measure(files, after,
                        IF account_name # << >> THEN keys ELSE SubSeq(keys, 1, 1))
    IN IF o.raised # "none" THEN Raise(o.raised, cache)
       ELSE IF fit # "none" THEN Raise(fit, cache)
       ELSE IF typeset # "none" THEN Raise(typeset, after)
       ELSE Return(Image(self, "closing", o.photo, None, None,
                         Handles(after, keys), <<cta_text, account_name>>, << >>),
                   after)

\* render_all: content_total = sum(1 for s in slides_data if s["type"] == "content")
RECURSIVE content_total(_)
content_total(slides_data) ==
    IF slides_data = << >> THEN 0
    ELSE (IF Head(slides_data).type = "content" THEN 1 ELSE 0)
         + content_total(Tail(slides_data))

\* The chain with its last test dropped: "else" in place of elif st == "closing".
DispatchElse(st) ==
    CASE st = "cover" -> "render_cover"
      [] st = "content" -> "render_content"
      [] OTHER -> "render_closing"

\* render_all: the if / elif chain on slide["type"]; "skip" when no branch is taken.
Dispatch(st) ==
    CASE st = "cover" -> "render_cover"
      [] st = "content" -> "render_content"
      [] st = "closing" -> "render_closing"
      [] OTHER -> "skip"

\* content_idx advanced for every slide, as an enumerate() index would be.
NextContentIdxEverySlide(content_idx, st) == content_idx + 1

\* render_all: content_idx after the slide of type st.
NextContentIdx(content_idx, st) ==
    IF Dispatch(st) = "render_content" THEN content_idx + 1 ELSE content_idx

\* slide.get(key, ""), for a text field of a descriptor.
Get(slide, key) == IF key \in DOMAIN slide THEN slide[key] ELSE << >>

\* render_all: the for loop from slide i on, with the results so far.
RECURSIVE RenderLoop(_, _, _, _, _, _, _)
RenderLoop(self, slides_data, i, content_idx, acc, files, cache) ==
    IF i > Len(slides_data) THEN [raised |-> "none", results |-> acc, cache |-> cache]
    ELSE
      LET slide == slides_data[i]
          st == slide.type
          idx == NextContentIdx(content_idx, st)
          branch == Dispatch(st)
          r == CASE branch = "render_cover" ->
                      render_cover(self, Get(slide, "title"), Get(slide, "subtitle"),
                                   slide.bg_image, files, cache)
                 [] branch = "render_content" ->
                      render_content(self, Get(slide, "heading"), Get(slide, "body"),
                                     Some(idx), Some(content_total(slides_data)),
                                     slide.bg_image, files, cache)
                 [] branch = "render_closing" ->
                      render_closing(self, Get(slide, "cta_text"),
                                     Get(slide, "account_name"),
                                     slide.bg_image, files, cache)
                 [] OTHER -> [raised |-> "none", image |-> None, cache |-> cache]
      IN IF r.raised # "none"
         THEN [raised |-> r.raised, results |-> << >>, cache |-> r.cache]
         ELSE RenderLoop(self, slides_data, i + 1, idx, acc \o r.image,
                         files, r.cache)

\* render_all(slides_data)
render_all(self, slides_data, files, cache) ==
    RenderLoop(self, slides_data, 1, 0, << >>, files, cache)

(***************************************************************************)
(* The caller: it builds a renderer, renders single slides, or prepares a  *)
(* slides_data list and renders it as a batch.  The text fields are empty  *)
(* here and vary in SpecText.                                              *)
(***************************************************************************)
\* The slide descriptors a caller appends; "story" is no recognized kind.
\* None has a text field, so slide.get gives the empty string for each.
Descriptors ==
    {[type |-> "cover", bg_image |-> "None"],
     [type |-> "content", bg_image |-> "Image"],
     [type |-> "closing", bg_image |-> "None"],
     [type |-> "closing", bg_image |-> "badbytes"],
     [type |-> "story", bg_image |-> "None"]}

\* The variables of the item-card layout, unused elsewhere.
NoLayout == card = << >> /\ drawn = << >> /\ layout = << >> /\ cards = << >>

layoutVars == <<card, drawn, layout, cards>>

\* The bodies a caller passes to render_content: empty, whitespace only,
\* and a marker with nothing after it followed by prose.
ContentBodies == {<< >>, <<" ", "\n">>, <<"-", "\n", "x">>}

\* The pure-function variables, unused by the renderer's specification.
NoPure ==
    /\ pc = "render"
    /\ text = << >> /\ font = "" /\ max_w = 0 /\ lines = << >> /\ relines = << >>
    /\ body = << >> /\ items = << >>
    /\ photo = << >> /\ target = << >> /\ crop = << >> /\ fitted = << >>
    /\ grad = << >> /\ alphas = << >>
    /\ NoLayout

pureVars == <<pc, text, font, max_w, lines, relines, body, items, photo, target,
              crop, fitted, grad, alphas, card, drawn, layout, cards>>

\* The renderer's variables, unused by the pure-function specifications.
NoRender ==
    /\ fs = [exists |-> {}, loads |-> {}]
    /\ font_cache = << >>
    /\ renderer = None
    /\ raised = "none"
    /\ slides = << >>
    /\ results = << >>
    /\ call = << >>
    /\ message = << >>

renderVars == <<fs, font_cache, renderer, raised, slides, results, call, message>>

Init ==
    /\ fs \in FsEnvs
    /\ font_cache = << >>
    /\ renderer = None
    /\ raised = "none"
    /\ slides = << >>
    /\ results = << >>
    /\ call = << >>
    /\ message = << >>
    /\ NoPure

\* renderer = CardNewsRenderer(template_name, size)
New(template_name, size) ==
    LET c == __init__(template_name, size) IN
    /\ slides = << >>
    /\ raised' = c.raised
    /\ renderer' = IF c.raised = "none" THEN c.self ELSE renderer
    /\ results' = << >>
    /\ call' = <<"__init__", template_name>>
    /\ message' = c.message
    /\ UNCHANGED <<fs, font_cache, slides>>
    /\ UNCHANGED pureVars

\* slides_data.append(d), while the caller prepares a batch.
AddSlide(d) ==
    /\ Len(slides) < MaxSlides
    /\ results = << >> /\ raised = "none"
    /\ slides' = Append(slides, d)
    /\ call' = <<"append">>
    /\ UNCHANGED <<fs, font_cache, renderer, raised, results, message>>
    /\ UNCHANGED pureVars

\* The effect of a single render call on the state.
Single(name, bg_image, r) ==
    /\ call' = <<name, bg_image>>
    /\ raised' = r.raised
    /\ results' = r.image
    /\ font_cache' = r.cache
    /\ message' = << >>
    /\ UNCHANGED <<fs, renderer, slides>>
    /\ UNCHANGED pureVars

\* image = renderer.render_cover(title, subtitle, bg_image)
RenderCover(title, subtitle, bg_image) ==
    /\ renderer # None /\ slides = << >>
    /\ Single("render_cover", bg_image,
              render_cover(renderer[1], title, subtitle, bg_image, fs, font_cache))

RenderContent(heading, b, slide_num, total_slides, bg_image) ==
    /\ renderer # None /\ slides = << >>
    /\ Single("render_content", bg_image,
              render_content(renderer[1], heading, b, slide_num, total_slides,
                             bg_image, fs, font_cache))

RenderClosing(cta_text, account_name, bg_image) ==
    /\ renderer # None /\ slides = << >>
    /\ Single("render_closing", bg_image,
              render_closing(renderer[1], cta_text, account_name, bg_image,
                             fs, font_cache))

\* results = renderer.render_all(slides_data)
RenderAll ==
    /\ renderer # None
    /\ LET r == render_all(renderer[1], slides, fs, font_cache) IN
       /\ raised' = r.raised
       /\ results' = r.results
       /\ font_cache' = r.cache
    /\ call' = <<"render_all">>
    /\ message' = << >>
    /\ UNCHANGED <<fs, renderer, slides>>
    /\ UNCHANGED pureVars

\* The caller drops the batch and what the last call returned.
Reset ==
    /\ slides # << >> \/ results # << >> \/ raised # "none" \/ call # << >>
    /\ slides' = << >> /\ results' = << >> /\ raised' = "none"
    /\ call' = << >>
    /\ message' = << >>
    /\ UNCHANGED <<fs, font_cache, renderer>>
    /\ UNCHANGED pureVars

Next ==
    \/ \E a \in RendererArgs : New(a[1], a[2])
    \/ \E d \in Descriptors : AddSlide(d)
    \/ \E bg \in BgValues : RenderCover(<< >>, << >>, bg)
    \/ \E bg \in BgValues, n \in {None, Some(1)}, b \in ContentBodies :
          RenderContent(<< >>, b, n, IF n = None THEN None ELSE Some(2), bg)
    \/ \E bg \in BgValues : RenderClosing(<< >>, << >>, bg)
    \/ RenderAll
    \/ Reset

Spec == Init /\ [][Next]_vars

(***************************************************************************)
(* Claims about render_all and the constructor, checked under Spec.        *)
(***************************************************************************)
RecognizedKinds == {"cover", "content", "closing"}

\* The positions of slides_data whose kind is recognized, and of kind content.
Recognized(sd) == {p \in DOMAIN sd : sd[p].type \in RecognizedKinds}

ContentPositions(sd) == {p \in DOMAIN sd : sd[p].type = "content"}

\* How many positions of P are at or before p.
RankIn(P, p) == Cardinality({q \in P : q <= p})

\* slides_data without the descriptors of unrecognized kind.
KnownOnly(sd) == SelectSeq(sd, LAMBDA d : d.type \in RecognizedKinds)

\* render_all has returned the list in results for the list in slides.
BatchReturned == call = <<"render_all">> /\ raised = "none"

\* C1: the k-th content descriptor is rendered with slide_num = k and
\* total_slides = the number of content descriptors; cover and closing
\* descriptors get no sequence number and do not advance the counter.
C1_ContentNumbering ==
    BatchReturned =>
        \A p \in Recognized(slides) :
            LET k == RankIn(Recognized(slides), p) IN
            /\ k \in DOMAIN results
            /\ IF slides[p].type = "content"
               THEN /\ results[k].slide_num =
                          Some(RankIn(ContentPositions(slides), p))
                    /\ results[k].total_slides =
                          Some(Cardinality(ContentPositions(slides)))
               ELSE /\ results[k].slide_num = None
                    /\ results[k].total_slides = None

\* Two content slides with a closing slide between them have been rendered.
C1_Witness ==
    /\ BatchReturned
    /\ Len(slides) = 3 /\ Len(results) = 3
    /\ slides[1].type = "content" /\ slides[2].type = "closing"
    /\ slides[3].type = "content"
    /\ results[3].slide_num = Some(2)

\* C2: render_all returns one image per descriptor of a recognized kind,
\* in input order; a descriptor of another kind gives no entry and changes
\* nothing for the others; with every kind recognized the lengths agree.
C2_OnePerRecognized ==
    BatchReturned =>
        /\ Len(results) = Cardinality(Recognized(slides))
        /\ \A p \in Recognized(slides) :
              LET k == RankIn(Recognized(slides), p) IN
              /\ k \in DOMAIN results
              /\ results[k].kind = slides[p].type
              /\ results[k].photo = _open_image(slides[p].bg_image).photo
        /\ results = render_all(renderer[1], KnownOnly(slides), fs, font_cache).results
        /\ (Recognized(slides) = DOMAIN slides => Len(results) = Len(slides))

\* A batch with an unrecognized kind between two recognized ones was rendered.
C2_Witness ==
    /\ BatchReturned
    /\ Len(slides) = 3 /\ Len(results) = 2
    /\ slides[2].type \notin RecognizedKinds

ColorRoles ==
    {"overlay_color", "overlay_alpha", "text_white", "card_bg", "accent",
     "heading_text", "body_text", "muted", "item_bg", "item_border"}

\* C3: an unrecognized template name makes the constructor raise, so no
\* renderer and no image ever exists for it; a recognized name gives a
\* renderer whose template has every color role.
C3_UnknownTemplateRaises ==
    /\ (call # << >> /\ call[1] = "__init__") =>
          /\ raised = "ValueError" <=> call[2] \notin DOMAIN TEMPLATES
          /\ results = << >>
          /\ raised = "none" => (renderer # None /\ renderer[1].t = call[2])
    /\ renderer # None =>
          /\ renderer[1].t \in DOMAIN TEMPLATES
          /\ DOMAIN TEMPLATES[renderer[1].t] = ColorRoles
    /\ \A i \in DOMAIN results : results[i].t \in DOMAIN TEMPLATES

\* The constructor was called with a name that is not in the registry.
C3_Witness ==
    /\ call # << >> /\ call[1] = "__init__"
    /\ call[2] \notin DOMAIN TEMPLATES
    /\ raised = "ValueError"

\* C12: rendering is deterministic: what render_all returns is what it
\* returns for the same renderer, descriptors and host when no font has
\* been cached yet, so two calls with identical template, descriptors and
\* canvas size return identical images whatever was rendered, and cached,
\* before or between them.
C12_RenderAllDeterministic ==
    BatchReturned => results = render_all(renderer[1], slides, fs, << >>).results

\* A batch of two slides or more was rendered with fonts from files, on a
\* cache that also holds fonts no slide of the batch uses.
C12_Witness ==
    /\ BatchReturned
    /\ Len(results) >= 2
    /\ \E i \in DOMAIN results :
          \E j \in DOMAIN results[i].fonts : results[i].fonts[j] # DefaultFont
    /\ DOMAIN render_all(renderer[1], slides, fs, << >>).cache # DOMAIN font_cache

\* C16: the error for an unrecognized template name reports the offending
\* name and every valid template name.
C16_ErrorNamesValidTemplates ==
    (call # << >> /\ call[1] = "__init__" /\ raised = "ValueError") =>
        /\ call[2] \in Range(message)
        /\ DOMAIN TEMPLATES \subseteq Range(message)

\* The (role, size) pairs the render methods ask _load_font for.
RenderFontKeys ==
    {<<"bold", 72>>, <<"bold", 42>>, <<"bold", 38>>, <<"bold", 26>>,
     <<"bold", 24>>, <<"medium", 32>>, <<"medium", 30>>, <<"regular", 24>>,
     <<"regular", 22>>, <<"serif", 48>>}

\* C20: after any sequence of render calls the keys of the font cache are
\* among ten fixed (role, size) pairs, so the cache never holds more than
\* ten entries, and once all ten are cached no render changes the cache.
C20_CacheKeysClosed ==
    [][/\ DOMAIN font_cache' \subseteq RenderFontKeys
       /\ Cardinality(DOMAIN font_cache') <= 10
       /\ DOMAIN font_cache = RenderFontKeys => font_cache' = font_cache]_vars

\* All ten fonts are cached and a slide has been rendered since.
C20_Witness ==
    /\ DOMAIN font_cache = RenderFontKeys
    /\ Cardinality(DOMAIN font_cache) = 10
    /\ call # << >> /\ call[1] = "render_cover"
    /\ raised = "none" /\ Len(results) = 1

(***************************************************************************)
(* SpecText: the render methods called with text fields of every shape,    *)
(* without a photo, on hosts with and without font files and with either   *)
(* built-in font.                                                          *)
(***************************************************************************)
\* The sources with which a slide is drawn without a photo.
NoPhotoSources == {"None", "str"}

\* A title, subtitle, heading, cta_text or account_name: empty, whitespace
\* only, two words, and one word longer than any line is wide.
LongWordLen == 12
LongWord == [i \in 1..LongWordLen |-> "a"]
TextFields == {<< >>, <<" ">>, <<"a", " ", "b">>, LongWord}

\* The hosts of FsEnvs, and with the bitmap built-in font: one without any
\* font file and one where every font of the repository's directory loads
\* except the medium one.
TextHosts ==
    FsEnvs \cup
    {[exists |-> {}, loads |-> {}, builtin |-> b] : b \in BuiltinFonts} \cup
    {[exists |-> RepoFontPaths \ {"fonts/Pretendard-Medium.otf"},
      loads |-> RepoFontPaths \ {"fonts/Pretendard-Medium.otf"},
      builtin |-> "bitmap"]}

\* Descriptors without a photo: with and without text fields, with a body
\* whose marker has no text and one of whitespace only, and a bg_image
\* that is a str.
TextDescriptors ==
    {[type |-> "cover", bg_image |-> "None",
      title |-> <<"a", " ", "b">>, subtitle |-> <<"a", " ", "b">>],
     [type |-> "cover", bg_image |-> "str"],
     [type |-> "content", bg_image |-> "None",
      heading |-> <<"a", " ", "b">>, body |-> <<"-", "\n", "x">>],
     [type |-> "content", bg_image |-> "str", body |-> <<" ", "\n">>],
     [type |-> "closing", bg_image |-> "str",
      cta_text |-> <<"a", " ", "b">>, account_name |-> <<"a", " ", "b">>],
     [type |-> "closing", bg_image |-> "None"]}

\* The slides_data lists of at most two of them.
TextBatches ==
    {<< >>} \cup {<<d>> : d \in TextDescriptors}
    \cup {<<d, e>> : d, e \in TextDescriptors}

\* A renderer of a recognized template exists and nothing is cached.
InitText ==
    /\ fs \in TextHosts
    /\ font_cache = << >>
    /\ renderer \in {__init__(t, DefaultCanvas).self : t \in DOMAIN TEMPLATES}
    /\ raised = "none"
    /\ slides = << >>
    /\ results = << >>
    /\ call = << >>
    /\ message = << >>
    /\ NoPure

\* The effect of a render call on the state: r is what the call does and
\* sd the list it was given, empty for a single render.
Rendered(c, sd, r) ==
    /\ call' = c
    /\ slides' = sd
    /\ raised' = r.raised
    /\ font_cache' = r.cache
    /\ message' = << >>
    /\ UNCHANGED <<fs, renderer>>
    /\ UNCHANGED pureVars

TextCover(title, subtitle, bg_image) ==
    LET r == render_cover(renderer[1], title, subtitle, bg_image, fs, font_cache)
    IN results' = r.image /\ Rendered(<<"render_cover", bg_image>>, << >>, r)

TextContent(heading, b, slide_num, total_slides, bg_image) ==
    LET r == render_content(renderer[1], heading, b, slide_num, total_slides,
                            bg_image, fs, font_cache)
    IN results' = r.image /\ Rendered(<<"render_content", bg_image>>, << >>, r)

TextClosing(cta_text, account_name, bg_image) ==
    LET r == render_closing(renderer[1], cta_text, account_name, bg_image,
                            fs, font_cache)
    IN results' = r.image /\ Rendered(<<"render_closing", bg_image>>, << >>, r)

TextAll(slides_data) ==
    LET r == render_all(renderer[1], slides_data, fs, font_cache)
    IN results' = r.results /\ Rendered(<<"render_all">>, slides_data, r)

NextText ==
    \/ \E bg \in NoPhotoSources, t, u \in TextFields : TextCover(t, u, bg)
    \/ \E bg \in NoPhotoSources, n \in {None, Some(1)}, t \in TextFields,
          b \in ContentBodies :
          TextContent(t, b, n, IF n = None THEN None ELSE Some(2), bg)
    \/ \E bg \in NoPhotoSources, t, u \in TextFields : TextClosing(t, u, bg)
    \/ \E sd \in TextBatches : TextAll(sd)

SpecText == InitText /\ [][NextText]_vars

\* C15: with a recognized template, render_cover, render_content and
\* render_closing called without a photo, or with a bg_image that is
\* neither bytes nor an image, return one image and do not raise, whatever
\* the text fields and the body and whether or not any font file exists;
\* so does render_all on descriptors without a photo, with one image per
\* recognized kind.
C15_RendersNeverRaise ==
    /\ (/\ call # << >>
        /\ call[1] \in {"render_cover", "render_content", "render_closing"}
        /\ call[2] \in NoPhotoSources) =>
          /\ raised = "none"
          /\ Len(results) = 1
          /\ results[1].photo = FALSE
          /\ call[1] = "render_content" => results[1].items # << >>
    /\ (/\ call = <<"render_all">>
        /\ \A p \in DOMAIN slides : slides[p].bg_image \in NoPhotoSources) =>
          /\ raised = "none"
          /\ Len(results) = Cardinality(Recognized(slides))

(***************************************************************************)
(* SpecWrap: _wrap on every text over a small alphabet, then on its own    *)
(* output rejoined with newlines.                                          *)
(***************************************************************************)
WrapAlphabet == {"a", "j", " ", "\n"}

\* Texts with the whitespace a pasted caption brings: "a\xa0j", "\fa\u3000",
\* "a\rj\u2028a", "\x0b\u2003\n\x85", "aj\u205fj\ta a".
OtherSpaceTexts ==
    {<<"a", "U+00A0", "j">>,
     <<"\f", "a", "U+3000">>,
     <<"a", "\r", "j", "U+2028", "a">>,
     <<"U+000B", "U+2003", "\n", "U+0085">>,
     <<"a", "j", "U+205F", "j", "\t", "a", " ", "a">>}

RECURSIVE SeqsUpTo(_, _)
SeqsUpTo(S, n) ==
    IF n = 0 THEN {<< >>}
    ELSE LET shorter == SeqsUpTo(S, n - 1) IN
         shorter \cup {Append(t, c) : t \in shorter, c \in S}

InitWrap ==
    /\ NoRender
    /\ NoLayout
    /\ pc = "wrap"
    /\ text \in SeqsUpTo(WrapAlphabet, MaxTextLen) \cup OtherSpaceTexts
    /\ font \in Fonts
    /\ max_w \in 1..MaxWidth
    /\ lines = << >> /\ relines = << >>
    /\ body = << >> /\ items = << >>
    /\ photo = << >> /\ target = << >> /\ crop = << >> /\ fitted = << >>
    /\ grad = << >> /\ alphas = << >>

\* lines = self._wrap(draw, text, font, max_w)
DoWrap ==
    /\ pc = "wrap"
    /\ lines' = _wrap(text, font, max_w)
    /\ pc' = "wrapped"
    /\ UNCHANGED <<text, font, max_w, relines, body, items, photo, target, crop,
                   fitted, grad, alphas>>
    /\ UNCHANGED renderVars
    /\ UNCHANGED layoutVars

\* relines = self._wrap(draw, "\n".join(lines), font, max_w)
DoRewrap ==
    /\ pc = "wrapped"
    /\ relines' = _wrap(Join(lines, "\n"), font, max_w)
    /\ pc' = "rewrapped"
    /\ UNCHANGED <<text, font, max_w, lines, body, items, photo, target, crop,
                   fitted, grad, alphas>>
    /\ UNCHANGED renderVars
    /\ UNCHANGED layoutVars

NextWrap == DoWrap \/ DoRewrap

SpecWrap == InitWrap /\ [][NextWrap]_vars

\* C4: every line returned by _wrap has measured width (_tw) <= max_w,
\* except a line of exactly one word whose own width exceeds max_w.
C4_LinesFit ==
    pc = "wrapped" =>
        \A i \in DOMAIN lines :
            \/ _tw(lines[i], font) <= max_w
            \/ /\ Len(Words(lines[i])) = 1
               /\ _tw(Words(lines[i])[1], font) > max_w

\* C10: wrapping the returned lines, rejoined with newlines, with the same
\* font and width returns the same lines.
C10_WrapIdempotent == pc = "rewrapped" => relines = lines

\* A text without a newline was broken into several lines, one of them of
\* two words or more, and wrapped again.
C10_Witness ==
    /\ pc = "rewrapped"
    /\ \A i \in DOMAIN text : text[i] # "\n"
    /\ Len(lines) >= 2
    /\ \E i \in DOMAIN lines : Len(Words(lines[i])) >= 2

\* The words of the lines ls, in order.
RECURSIVE WordsOfLines(_)
WordsOfLines(ls) ==
    IF ls = << >> THEN << >> ELSE Words(Head(ls)) \o WordsOfLines(Tail(ls))

\* ls is, in order, one group of lines per paragraph of paras: the empty
\* line alone for a blank paragraph, else lines that each hold a word and
\* whose words in order are the paragraph's words.
RECURSIVE GroupedByParagraph(_, _)
GroupedByParagraph(paras, ls) ==
    IF paras = << >> THEN ls = << >>
    ELSE IF Words(Head(paras)) = << >>
         THEN /\ ls # << >>
              /\ Head(ls) = << >>
              /\ GroupedByParagraph(Tail(paras), Tail(ls))
         ELSE \E n \in 1..Len(ls) :
                 /\ \A i \in 1..n : ls[i] = Join(Words(ls[i]), " ") /\ ls[i] # << >>
                 /\ WordsOfLines(SubSeq(ls, 1, n)) = Words(Head(paras))
                 /\ GroupedByParagraph(Tail(paras), SubSeq(ls, n + 1, Len(ls)))

\* C11: the lines _wrap returns are, in order, one group per paragraph of
\* the text split at newlines; a blank paragraph gives exactly one empty
\* line; any other paragraph gives lines whose words, read in order, are
\* the paragraph's whitespace-separated words, none dropped, duplicated,
\* reordered or split, also when a word is wider than max_w.
C11_WrapKeepsParagraphsAndWords ==
    pc = "wrapped" => GroupedByParagraph(Split(text, "\n"), lines)

\* A text of three paragraphs, the middle one blank and the last one of two
\* words that are each wider than max_w, was wrapped into four lines.
C11_Witness ==
    /\ pc = "wrapped"
    /\ Len(Split(text, "\n")) = 3
    /\ Words(Split(text, "\n")[2]) = << >>
    /\ Len(Words(Split(text, "\n")[3])) = 2
    /\ \A i \in 1..2 : _tw(Words(Split(text, "\n")[3])[i], font) > max_w
    /\ Len(lines) = 4 /\ lines[2] = << >>

(***************************************************************************)
(* SpecBullet: the bullet parser on every body over a small alphabet and   *)
(* on some longer bodies.                                                  *)
(***************************************************************************)
BulletAlphabet == {"-", "1", ".", "x", " ", "\n"}

\* "- Step one\nextra detail\n- Step two"
ExampleBody ==
    <<"-", " ", "S", "t", "e", "p", " ", "o", "n", "e", "\n", "e", "x", "t",
      "r", "a", " ", "d", "e", "t", "a", "i", "l", "\n", "-", " ", "S", "t",
      "e", "p", " ", "t", "w", "o">>

StepOne == <<"S", "t", "e", "p", " ", "o", "n", "e">>

ExtraDetail ==
    <<"e", "x", "t", "r", "a", " ", "d", "e", "t", "a", "i", "l">>

StepTwo == <<"S", "t", "e", "p", " ", "t", "w", "o">>

\* "3. x", "12) x", "U+2022 x", "U+00B7x", "7)", "one\n\ntwo three",
\* "\u3000-\xa0x\fy\n\x0b\n1.\u2003x\r", "\fx ", and numbered with a
\* superscript two, a fullwidth one and a Devanagari one: "\xb2) x",
\* "\uff11. x", "\u0967) x\ny"
LongerBodies ==
    {ExampleBody,
     <<"3", ".", " ", "x">>,
     <<"1", "2", ")", " ", "x">>,
     <<"U+2022", " ", "x">>,
     <<"U+00B7", "x">>,
     <<"7", ")">>,
     <<"o", "n", "e", "\n", "\n", "t", "w", "o", " ", "t", "h", "r", "e", "e">>,
     <<"U+3000", "-", "U+00A0", "x", "\f", "y", "\n", "U+000B", "\n", "1", ".",
       "U+2003", "x", "\r">>,
     <<"\f", "x", " ">>,
     <<"U+00B2", ")", " ", "x">>,
     <<"U+FF11", ".", " ", "x">>,
     <<"U+0967", ")", " ", "x", "\n", "y">>}

InitBullet ==
    /\ NoRender
    /\ NoLayout
    /\ pc = "parse"
    /\ body \in SeqsUpTo(BulletAlphabet, MaxBodyLen) \cup LongerBodies
    /\ items = << >>
    /\ text = << >> /\ font = "" /\ max_w = 0 /\ lines = << >> /\ relines = << >>
    /\ photo = << >> /\ target = << >> /\ crop = << >> /\ fitted = << >>
    /\ grad = << >> /\ alphas = << >>

\* The parsing block of render_content(heading, body, ...).
DoParse ==
    /\ pc = "parse"
    /\ items' = ParseBody(body)
    /\ pc' = "parsed"
    /\ UNCHANGED <<text, font, max_w, lines, relines, body, photo, target, crop,
                   fitted, grad, alphas>>
    /\ UNCHANGED renderVars
    /\ UNCHANGED layoutVars

NextBullet == DoParse

SpecBullet == InitBullet /\ [][NextBullet]_vars

\* The trimmed lines of the trimmed body.
BodyLines(b) ==
    LET raws == Split(Strip(b), "\n") IN [i \in DOMAIN raws |-> Strip(raws[i])]

\* An item is open when line i is read: a bullet line precedes it with no
\* blank line in between.
OpenAt(ls, i) ==
    \E j \in 1..(i - 1) :
        /\ ls[j] # << >> /\ IsBullet(ls[j])
        /\ \A m \in (j + 1)..(i - 1) : ls[m] # << >>

\* Line i starts an item: a bullet line, or a non-blank line met while no item is open.
Opens(ls, i) == ls[i] # << >> /\ (IsBullet(ls[i]) \/ ~OpenAt(ls, i))

\* The position in the item list of the item that line i starts.
ItemOf(ls, i) == Cardinality({j \in 1..i : Opens(ls, j)})

\* The last line of the run of non-blank, non-bullet lines that follows line i.
RECURSIVE RunEnd(_, _)
RunEnd(ls, i) ==
    IF i + 1 \in DOMAIN ls /\ ls[i + 1] # << >> /\ ~IsBullet(ls[i + 1])
    THEN RunEnd(ls, i + 1) ELSE i

\* C5: a line that starts with a bullet marker opens an item titled by the
\* line without its marker; the non-blank, non-bullet lines that follow
\* it are its description, joined by single spaces.  The example body
\* gives (Step one, extra detail) and (Step two, empty).
C5_BulletItemAndDescription ==
    pc = "parsed" =>
        /\ LET ls == BodyLines(body) IN
           \A i \in DOMAIN ls :
              (ls[i] # << >> /\ Head(ls[i]) \in BulletMarkers) =>
                  LET k == ItemOf(ls, i) IN
                  /\ k \in DOMAIN items
                  /\ items[k].title = Strip(Tail(ls[i]))
                  /\ items[k].desc = Join(SubSeq(ls, i + 1, RunEnd(ls, i)), " ")
        /\ body = ExampleBody =>
              items = <<[title |-> StepOne, desc |-> ExtraDetail],
                        [title |-> StepTwo, desc |-> << >>]>>

\* The example body has been parsed.
C5_Witness == pc = "parsed" /\ body = ExampleBody /\ Len(items) = 2

\* A marked line followed by two lines of description has been parsed.
C5_WitnessTwoLines ==
    /\ pc = "parsed"
    /\ body = <<"-", "\n", "x", "\n", "x">>
    /\ items = <<[title |-> << >>, desc |-> <<"x", " ", "x">>]>>

\* The numeral prefix of the specification: one or two digits, then "." or
\* ")", a digit being any character that is one.
NumeralPrefixLen(line) ==
    IF Len(line) >= 2 /\ line[1] \in Digits /\ line[2] \in {".", ")"} THEN 2
    ELSE IF Len(line) >= 3 /\ line[1] \in Digits /\ line[2] \in Digits
            /\ line[3] \in {".", ")"} THEN 3
    ELSE 0

\* A non-empty trimmed line that starts with a marker or a numeral prefix.
HasBulletPrefix(line) ==
    Head(line) \in BulletMarkers \/ NumeralPrefixLen(line) > 0

\* The line without its marker or numeral prefix, trimmed.
WithoutPrefix(line) ==
    IF Head(line) \in BulletMarkers THEN Strip(DropFirst(line, 1))
    ELSE Strip(DropFirst(line, NumeralPrefixLen(line)))

\* No line of the body has a bullet marker or a numeral prefix.
FreeProse(b) ==
    \A i \in DOMAIN BodyLines(b) :
        BodyLines(b)[i] # << >> => ~HasBulletPrefix(BodyLines(b)[i])

\* The non-blank lines of the body, in order.
NonBlankLines(b) == SelectSeq(BodyLines(b), LAMBDA l : l # << >>)

\* C6 as stated: free prose, on one line or several, gives exactly one
\* item, titled by the trimmed input, with an empty description.
C6_ProseIsOneItem ==
    (pc = "parsed" /\ FreeProse(body)) =>
        items = <<[title |-> Strip(body), desc |-> << >>]>>

\* C6 amended: free prose gives one item per non-blank line, in order,
\* titled by the trimmed line, with an empty description; with at most
\* one non-blank line that is one item titled by the trimmed input.
C6_ProseItemPerLine ==
    (pc = "parsed" /\ FreeProse(body)) =>
        LET nb == NonBlankLines(body) IN
        /\ Len(nb) >= 1 =>
              items = [k \in DOMAIN nb |-> [title |-> nb[k], desc |-> << >>]]
        /\ Len(nb) <= 1 =>
              items = <<[title |-> Strip(body), desc |-> << >>]>>

\* Prose on two lines has been parsed into two items.
C6_Witness ==
    /\ pc = "parsed" /\ FreeProse(body)
    /\ Len(NonBlankLines(body)) = 2 /\ Len(items) = 2

\* C7: a trimmed line starts a new item exactly when it starts with a
\* marker or with a one- or two-digit numeral followed by "." or ")", and
\* the item's title is the line without that prefix.
C7_BulletPrefixes ==
    pc = "parsed" =>
        LET ls == BodyLines(body) IN
        \A i \in DOMAIN ls :
            ls[i] # << >> =>
                /\ IsBullet(ls[i]) <=> HasBulletPrefix(ls[i])
                /\ HasBulletPrefix(ls[i]) =>
                      /\ ItemOf(ls, i) \in DOMAIN items
                      /\ items[ItemOf(ls, i)].title = WithoutPrefix(ls[i])

\* An item is open when line i is read, a bullet line being one that
\* starts with a marker or a numeral prefix.
PrefixOpenAt(ls, i) ==
    \E j \in 1..(i - 1) :
        /\ ls[j] # << >> /\ HasBulletPrefix(ls[j])
        /\ \A m \in (j + 1)..(i - 1) : ls[m] # << >>

\* The lines that start an item: the bullet lines, and the non-blank
\* non-bullet lines met while no item is open.
FirstLines(ls) ==
    {i \in DOMAIN ls :
        ls[i] # << >> /\ (HasBulletPrefix(ls[i]) \/ ~PrefixOpenAt(ls, i))}

\* C19: the parser never discards an item: the number of items is the
\* number of bullet lines plus the number of non-blank non-bullet lines
\* met while no item is open, or 1 when that sum is 0; the items are in
\* the order of their first lines, an item open at a blank line or at the
\* end of the input is among them, and the result is never empty.
C19_NoItemDiscarded ==
    pc = "parsed" =>
        LET ls == BodyLines(body)
            first == FirstLines(ls)
        IN /\ items # << >>
           /\ Len(items) = IF first = {} THEN 1 ELSE Cardinality(first)
           /\ \A i \in first :
                 /\ RankIn(first, i) \in DOMAIN items
                 /\ items[RankIn(first, i)].title = BulletText(ls[i])

(***************************************************************************)
(* SpecFit: _fit_cover on every photo size and target size, an empty       *)
(* photo and a target without height included.  A target without width is  *)
(* left out: what resize does with it is Pillow's.                         *)
(***************************************************************************)
InitFit ==
    /\ NoRender
    /\ NoLayout
    /\ pc = "fit"
    /\ photo \in (0..MaxDim) \X (0..MaxDim)
    /\ target \in (1..MaxDim) \X (0..MaxDim)
    /\ crop = << >> /\ fitted = << >>
    /\ text = << >> /\ font = "" /\ max_w = 0 /\ lines = << >> /\ relines = << >>
    /\ body = << >> /\ items = << >>
    /\ grad = << >> /\ alphas = << >>

\* img = _fit_cover(photo, w, h)
DoFit ==
    /\ pc = "fit"
    /\ LET r == _fit_cover(photo[1], photo[2], target[1], target[2]) IN
       /\ raised' = r.raised
       /\ crop' = r.box
       /\ fitted' = r.size
    /\ pc' = "fitted"
    /\ UNCHANGED <<text, font, max_w, lines, relines, body, items, photo, target,
                   grad, alphas>>
    /\ UNCHANGED <<fs, font_cache, renderer, slides, results, call, message>>
    /\ UNCHANGED layoutVars

NextFit == DoFit

SpecFit == InitFit /\ [][NextFit]_vars

\* A photo that already has the target's ratio and still loses a row: the
\* float quotient 9 / (9 / 7) is just below 7.
C8_WitnessRounded ==
    /\ pc = "fitted" /\ raised = "none"
    /\ photo = target
    /\ crop[1].bottom - crop[1].top < photo[2]

\* C8: for sizes >= 1 the crop box is non-empty, lies inside the source,
\* cuts only the axis that has excess, removes the same number of pixels
\* on both sides of it, and the result has exactly the target size.
C8_CoverFitSymmetric ==
    (pc = "fitted" /\ photo[1] >= 1 /\ photo[2] >= 1 /\ target[2] >= 1) =>
        LET b == crop[1]
            pw == photo[1]
            ph == photo[2]
            w == target[1]
            h == target[2]
        IN /\ b.left < b.right /\ b.top < b.bottom
           /\ 0 <= b.left /\ b.right <= pw /\ 0 <= b.top /\ b.bottom <= ph
           /\ pw * h <= w * ph => (b.left = 0 /\ b.right = pw)
           /\ pw * h >= w * ph => (b.top = 0 /\ b.bottom = ph)
           /\ b.left = pw - b.right
           /\ b.top = ph - b.bottom
           /\ fitted = <<w, h>>

(***************************************************************************)
(* SpecGrad: _gradient_overlay on every small height and pair of alphas,   *)
(* and on taller images between the alphas the renderer passes (40 to 200  *)
(* on a cover, 0 to 160 on a content photo) and others up to 255.          *)
(***************************************************************************)
TallGradients ==
    [h : {11, 23}, alpha_top : {0, 40, 255},
     alpha_bottom : {0, 90, 160, 170, 180, 200, 255}]

InitGrad ==
    /\ NoRender
    /\ NoLayout
    /\ pc = "gradient"
    /\ grad \in [h : 1..MaxHeight, alpha_top : 0..MaxAlpha,
                 alpha_bottom : 0..MaxAlpha] \cup TallGradients
    /\ alphas = << >>
    /\ text = << >> /\ font = "" /\ max_w = 0 /\ lines = << >> /\ relines = << >>
    /\ body = << >> /\ items = << >>
    /\ photo = << >> /\ target = << >> /\ crop = << >> /\ fitted = << >>

\* img = _gradient_overlay(img, color, alpha_top, alpha_bottom)
DoGradient ==
    /\ pc = "gradient"
    /\ alphas' = _gradient_overlay(grad.h, grad.alpha_top, grad.alpha_bottom)
    /\ pc' = "drawn"
    /\ UNCHANGED <<text, font, max_w, lines, relines, body, items, photo, target,
                   crop, fitted, grad>>
    /\ UNCHANGED renderVars
    /\ UNCHANGED layoutVars

NextGrad == DoGradient

SpecGrad == InitGrad /\ [][NextGrad]_vars

Abs(x) == IF x < 0 THEN -x ELSE x

\* Every row's alpha is within one unit of the line from alpha_top at row 0
\* to alpha_bottom at row h - 1 (stated for h >= 2, without division).
RowsLinear ==
    grad.h >= 2 =>
        \A r \in 1..grad.h :
            Abs(alphas[r] * (grad.h - 1)
                - (grad.alpha_top * (grad.h - 1)
                   + (grad.alpha_bottom - grad.alpha_top) * (r - 1)))
                <= grad.h - 1

\* C9 as stated: for every h >= 1, row 0 is within one unit of alpha_top,
\* the last row within one unit of alpha_bottom, the rows linear between.
C9_GradientEndpoints ==
    pc = "drawn" =>
        /\ Len(alphas) = grad.h
        /\ Abs(alphas[1] - grad.alpha_top) <= 1
        /\ Abs(alphas[grad.h] - grad.alpha_bottom) <= 1
        /\ RowsLinear

\* C9 amended: row 0 is within one unit of alpha_top for every h >= 1; the
\* last row is within one unit of alpha_bottom and the rows are linear in
\* between for every h >= 2; the only row of an image of height 1 is drawn
\* with alpha_top.
C9_GradientEndpointsTwoRows ==
    pc = "drawn" =>
        /\ Len(alphas) = grad.h
        /\ Abs(alphas[1] - grad.alpha_top) <= 1
        /\ grad.h >= 2 => Abs(alphas[grad.h] - grad.alpha_bottom) <= 1
        /\ RowsLinear
        /\ grad.h = 1 => alphas = <<grad.alpha_top>>

\* A gradient over three rows or more between alphas far apart has been drawn.
C9_Witness ==
    /\ pc = "drawn"
    /\ grad.h >= 3
    /\ Abs(grad.alpha_top - grad.alpha_bottom) > 2
    /\ alphas[2] # grad.alpha_top /\ alphas[2] # grad.alpha_bottom

\* A row whose alpha the float arithmetic leaves one below the exact value
\* of the line: row 7 of 11 from 0 to 90 gets int(62.99999999999999) = 62.
C9_WitnessRounded ==
    /\ pc = "drawn"
    /\ grad.h >= 2
    /\ \E r \in 1..grad.h :
           /\ grad.alpha_bottom > grad.alpha_top
           /\ ((grad.alpha_bottom - grad.alpha_top) * (r - 1)) % (grad.h - 1) = 0
           /\ (alphas[r] - grad.alpha_top) * (grad.h - 1)
              < (grad.alpha_bottom - grad.alpha_top) * (r - 1)

(***************************************************************************)
(* SpecFont: _load_font called directly, on a host whose font files come   *)
(* and go between the calls.  A file is absent, present but not loadable   *)
(* by ImageFont.truetype, or present and loadable.                         *)
(***************************************************************************)
\* The files whose state varies: the candidates of "serif" and the
\* repository's regular font.
FontFiles == Range(_FONT_PATHS["serif"]) \cup {"fonts/Pretendard-Regular.otf"}

FontHosts ==
    {f \in [exists : SUBSET FontFiles, loads : SUBSET FontFiles] :
        f.loads \subseteq f.exists}

\* The (role, size) pairs requested; "light" is no key of _FONT_PATHS.
FontRequests == {<<"serif", 48>>, <<"serif", 22>>, <<"light", 22>>}

InitFont ==
    /\ fs \in FontHosts
    /\ font_cache = << >>
    /\ renderer = None
    /\ raised = "none"
    /\ slides = << >>
    /\ results = << >>
    /\ call = << >>
    /\ message = << >>
    /\ NoPure

\* font = _load_font(role, size)
LoadFont(role, size) ==
    /\ font_cache' = _load_font(fs, font_cache, role, size)
    /\ results' = <<font_cache'[<<role, size>>]>>
    /\ raised' = "none"
    /\ call' = <<"_load_font", role, size>>
    /\ UNCHANGED <<fs, renderer, slides, message>>
    /\ UNCHANGED pureVars

\* One font file is installed, replaced by one that does not load, or removed.
HostChanges(path) ==
    /\ \E f \in FontHosts :
          /\ f # fs
          /\ f.exists \ {path} = fs.exists \ {path}
          /\ f.loads \ {path} = fs.loads \ {path}
          /\ fs' = f
    /\ UNCHANGED <<font_cache, renderer, raised, slides, results, call, message>>
    /\ UNCHANGED pureVars

NextFont ==
    \/ \E k \in FontRequests : LoadFont(k[1], k[2])
    \/ \E path \in FontFiles : HostChanges(path)

SpecFont == InitFont /\ [][NextFont]_vars

\* The step is a call of _load_font: the caller's statement names it and
\* the host's files are as they were.
LoadFontStep == call' # << >> /\ call'[1] = "_load_font" /\ fs' = fs

\* The first candidate of the role that exists and loads, at the size
\* asked, or the built-in font when there is none.
FirstLoadable(files, role, size) ==
    LET paths == CandidatePaths(role)
        ok == {i \in DOMAIN paths : paths[i] \in files.exists \cap files.loads}
    IN IF ok = {} THEN DefaultFont
       ELSE [src |-> paths[CHOOSE i \in ok : \A j \in ok : i <= j], size |-> size]

\* C13: _load_font never raises and always returns a handle; for a key
\* not yet cached that is the first candidate path of the role, in
\* registered order, that exists and loads, a missing or failing path
\* being skipped, and the built-in font when none loads; what is returned
\* is cached under (role, size).
C13_FontProviderFallsBack ==
    [][LoadFontStep =>
         LET key == <<call'[2], call'[3]>> IN
         /\ raised' = "none"
         /\ Len(results') = 1
         /\ key \in DOMAIN font_cache'
         /\ font_cache'[key] = results'[1]
         /\ key \notin DOMAIN font_cache =>
               results'[1] = FirstLoadable(fs, key[1], key[2])]_vars

\* The serif font was asked for on a host where its first file does not
\* load and its second is missing: the third was returned.
C13_Witness ==
    /\ call = <<"_load_font", "serif", 48>>
    /\ _FONT_PATHS["serif"][1] \in fs.exists \ fs.loads
    /\ _FONT_PATHS["serif"][2] \notin fs.exists
    /\ results = <<[src |-> _FONT_PATHS["serif"][3], size |-> 48]>>

\* A role without registered paths was asked for on a host where no
\* regular font loads: the built-in font was returned and cached.
C13_WitnessBuiltIn ==
    /\ call = <<"_load_font", "light", 22>>
    /\ fs.loads \cap Range(_FONT_PATHS["regular"]) = {}
    /\ results = <<DefaultFont>>
    /\ font_cache[<<"light", 22>>] = DefaultFont

\* C14: the cache is keyed by (role, size) and never invalidated: an
\* entry is never replaced or removed; a request for a cached key returns
\* the cached handle and leaves the cache as it is, whatever the files
\* are by then; a request for (role, size) adds or changes no entry under
\* another key.
C14_CacheKeptPerKey ==
    [][/\ \A k \in DOMAIN font_cache :
             k \in DOMAIN font_cache' /\ font_cache'[k] = font_cache[k]
       /\ LoadFontStep =>
             LET key == <<call'[2], call'[3]>> IN
             /\ DOMAIN font_cache' \subseteq DOMAIN font_cache \cup {key}
             /\ key \in DOMAIN font_cache =>
                   /\ font_cache' = font_cache
                   /\ results' = <<font_cache[key]>>]_vars

\* The serif font of size 48 was last asked for and its cached handle is
\* not what the files would give now, while the one of size 22 is.
C14_Witness ==
    /\ call = <<"_load_font", "serif", 48>>
    /\ {<<"serif", 48>>, <<"serif", 22>>} \subseteq DOMAIN font_cache
    /\ results = <<font_cache[<<"serif", 48>>]>>
    /\ font_cache[<<"serif", 48>>] # FirstLoadable(fs, "serif", 48)
    /\ font_cache[<<"serif", 22>>] = FirstLoadable(fs, "serif", 22)
    /\ font_cache[<<"serif", 22>>] # DefaultFont

(***************************************************************************)
(* The item cards of render_content.  Heights are in pixels; a line height *)
(* is what _th gives for the sample glyph with the font in use.            *)
(***************************************************************************)
bottom_pad == 60

item_gap == 12

\* The line heights enumerated for the heading, title and description fonts.
LineHeights == 24..MaxLineH

\* One "for ... in lines" loop of the item text: line k of n is drawn at
\* ty when ty + lh <= limit, else the loop is left; gives the lines drawn
\* and ty after the loop.
RECURSIVE DrawLines(_, _, _, _, _, _, _)
DrawLines(part, k, n, ty, lh, step, limit) ==
    IF k > n \/ ty + lh > limit THEN [drawn |-> << >>, ty |-> ty]
    ELSE LET rest == DrawLines(part, k + 1, n, ty + lh + step, lh, step, limit)
         IN [drawn |-> <<[part |-> part, index |-> k, top |-> ty,
                          bottom |-> ty + lh]>> \o rest.drawn,
             ty |-> rest.ty]

\* The text of one item card whose top is y: n_title wrapped title lines
\* and n_desc wrapped description lines, n_desc = 0 for an empty desc.
ItemText(y, card_h, lh_body, lh_desc, n_title, n_desc) ==
    LET limit == y + card_h - 8
        t == DrawLines("title", 1, n_title, y + 14, lh_body, 4, limit)
        d == DrawLines("desc", 1, n_desc, t.ty + 4, lh_desc, 3, limit)
    IN IF n_desc > 0 THEN t.drawn \o d.drawn ELSE t.drawn

\* text_area_top, with or without a photo, for a heading of n_hlines
\* lines of height lh_h.
text_area_top(h, has_photo, lh_h, n_hlines) ==
    IF has_photo THEN PhotoHeight(h) + 10
    ELSE LET h_block == lh_h * n_hlines + 8 * Max(0, n_hlines - 1)
             bar_h == h_block + 36
         IN 50 + bar_h + 20

available_h(h, top) == h - top - bottom_pad

\* per_item for n items
per_item(h, top, n) ==
    Max(55, (available_h(h, top) - item_gap * Max(0, n - 1)) \div Max(n, 1))

\* The "for item in items" loop from item i on, the next card's top being y.
RECURSIVE CardLoop(_, _, _, _, _)
CardLoop(h, card_h, y, i, n) ==
    IF i > n \/ y + 50 > h - bottom_pad THEN << >>
    ELSE <<[item |-> i, top |-> y, bottom |-> y + card_h]>>
         \o CardLoop(h, card_h, y + card_h + item_gap, i + 1, n)

\* The cards drawn for n items below text_area_top = top.
ItemCards(h, top, n) == CardLoop(h, per_item(h, top, n), top + 10, 1, n)

(***************************************************************************)
(* SpecCard: the text of one item card, over card heights, line heights    *)
(* and numbers of lines.                                                   *)
(***************************************************************************)
InitCard ==
    /\ NoRender
    /\ pc = "item"
    /\ text = << >> /\ font = "" /\ max_w = 0 /\ lines = << >> /\ relines = << >>
    /\ body = << >> /\ items = << >>
    /\ photo = << >> /\ target = << >> /\ crop = << >> /\ fitted = << >>
    /\ grad = << >> /\ alphas = << >>
    /\ card \in [y : {0, 156}, card_h : 55..MaxCardH, lh_body : LineHeights,
                  lh_desc : LineHeights, n_title : 1..MaxCardLines,
                  n_desc : 0..MaxCardLines]
    /\ drawn = << >>
    /\ layout = << >> /\ cards = << >>

\* The title and description loops of one item of render_content.
DrawItem ==
    /\ pc = "item"
    /\ drawn' = ItemText(card.y, card.card_h, card.lh_body, card.lh_desc,
                         card.n_title, card.n_desc)
    /\ pc' = "item_drawn"
    /\ UNCHANGED <<text, font, max_w, lines, relines, body, items, photo, target,
                   crop, fitted, grad, alphas, card, layout, cards>>
    /\ UNCHANGED renderVars

NextCard == DrawItem

SpecCard == InitCard /\ [][NextCard]_vars

\* The lines of the item in the order they are considered.
Considered(c) ==
    [k \in 1..c.n_title |-> [part |-> "title", index |-> k]]
    \o [k \in 1..c.n_desc |-> [part |-> "desc", index |-> k]]

\* C17: truncation in an item card is positional: the lines drawn are the
\* first lines of the item, title lines then description lines, so that no
\* line is drawn after one that was not; and every line drawn ends at or
\* above the card's bottom edge minus 8 pixels.
C17_TruncationPositional ==
    pc = "item_drawn" =>
        /\ Len(drawn) <= Len(Considered(card))
        /\ \A k \in DOMAIN drawn :
              /\ drawn[k].part = Considered(card)[k].part
              /\ drawn[k].index = Considered(card)[k].index
              /\ drawn[k].bottom <= card.y + card.card_h - 8

(***************************************************************************)
(* SpecLayout: the item cards of a content slide, over canvas heights,     *)
(* headings and numbers of items.                                          *)
(***************************************************************************)
InitLayout ==
    /\ NoRender
    /\ pc = "layout"
    /\ text = << >> /\ font = "" /\ max_w = 0 /\ lines = << >> /\ relines = << >>
    /\ body = << >> /\ items = << >>
    /\ photo = << >> /\ target = << >> /\ crop = << >> /\ fitted = << >>
    /\ grad = << >> /\ alphas = << >>
    /\ card = << >> /\ drawn = << >>
    /\ layout \in [h : 200..MaxCanvasH \cup {1080}, has_photo : BOOLEAN, lh_h : LineHeights,
                    n_hlines : 1..2, n : 1..MaxItems]
    /\ cards = << >>

\* The item loop of render_content.
LayItems ==
    /\ pc = "layout"
    /\ cards' = ItemCards(layout.h,
                          text_area_top(layout.h, layout.has_photo, layout.lh_h,
                                        layout.n_hlines),
                          layout.n)
    /\ pc' = "laid"
    /\ UNCHANGED <<text, font, max_w, lines, relines, body, items, photo, target,
                   crop, fitted, grad, alphas, card, drawn, layout>>
    /\ UNCHANGED renderVars

NextLayout == LayItems

SpecLayout == InitLayout /\ [][NextLayout]_vars

\* C18: the cards drawn are those of a prefix of the items, each of
\* height max(55, even share of the available height after the gaps); they
\* do not overlap; and each lies inside the remaining vertical space: its
\* top at or below text_area_top and its bottom at or above the canvas
\* height minus the bottom padding of 60.
C18_CardsInsideArea ==
    pc = "laid" =>
        LET top == text_area_top(layout.h, layout.has_photo, layout.lh_h,
                                 layout.n_hlines)
            gaps == 12 * (layout.n - 1)
            share == (layout.h - top - 60 - gaps) \div layout.n
        IN /\ Len(cards) <= layout.n
           /\ \A k \in DOMAIN cards :
                 /\ cards[k].item = k
                 /\ cards[k].bottom - cards[k].top = Max(55, share)
                 /\ k > 1 => cards[k - 1].bottom <= cards[k].top
                 /\ cards[k].top >= top
                 /\ cards[k].bottom <= layout.h - 60

====
